---- MODULE Spec2Model ----
(***************************************************************************)
(* Replay pipeline of f1-race-replay:                                      *)
(*   extract_driver_telemetry -> build_global_timeline ->                  *)
(*   resample_all_drivers -> build_frames                                  *)
(* (src/src/telemetry.py, src/src/replay_clock.py, src/src/frames.py,      *)
(* driven by src/main.py).                                                 *)
(*                                                                         *)
(* Numbers.  The code works on float64.  The model works on exact          *)
(* fixed-point numbers:                                                    *)
(*   - a time is an integer number of ticks, TicksPerSec ticks a second;   *)
(*     fps divides TicksPerSec, so the frame step 1/fps is a whole number  *)
(*     of ticks;                                                           *)
(*   - a continuous channel value v (x, y, distance, speed, throttle,      *)
(*     brake, lap_length, progress) is stored as the integer v * Scale,    *)
(*     where Scale is a multiple of every possible gap between two raw     *)
(*     timestamps, so that linear interpolation is exact.                  *)
(* Non-finite timestamps (-inf, +inf, NaN) are the integers NegInf,        *)
(* PosInf, NaN outside the range of the finite ones.                       *)
(* None is the string "None" in a field that holds a name, and the integer *)
(* NoneNumber in a field that holds a number.                              *)
(* A Python dict is a function; its iteration order is the order of        *)
(* DriverOrder restricted to its keys (every dict of the pipeline is       *)
(* filled by iterating over the previous one).                             *)
(***************************************************************************)
EXTENDS Integers, Sequences, FiniteSets, TLC

\* ------------------------------------------------------------------ bounds
\* Raw timestamps of the pipeline are 0..MaxTime ticks.
MaxTime == 2
\* A vehicle of the pipeline has at most MaxLen raw samples.
MaxLen == 2
\* Raw timestamps given to the resampler alone are 0..MaxSrcTime ticks.
MaxSrcTime == 4
\* A vehicle given to the resampler alone has at most MaxSrcLen raw samples.
MaxSrcLen == 3
\* build_frames alone is given MaxFrames timeline entries.
MaxFrames == 2
\* Ticks per second.
TicksPerSec == 2
\* A vehicle of the session given to extract_driver_telemetry has at most
\* MaxLaps laps.
MaxLaps == 2
\* build_frames is given MaxLapFrames timeline entries, one second apart, when
\* the fastest lap is followed over the frames.
MaxLapFrames == 8

\* ------------------------------------------------------------- arithmetic
Max(a, b) == IF a >= b THEN a ELSE b

RECURSIVE Gcd(_, _)
Gcd(a, b) == IF b = 0 THEN a ELSE Gcd(b, a % b)

RECURSIVE LcmUpTo(_)
LcmUpTo(n) == IF n <= 1 THEN 1 ELSE (LcmUpTo(n - 1) * n) \div Gcd(LcmUpTo(n - 1), n)

\* Fixed-point unit of the continuous channels.
Scale == LcmUpTo(Max(MaxTime, MaxSrcTime))

\* Non-finite float64 values of a timestamp.
NegInf == -(Max(MaxTime, MaxSrcTime) + 10)

PosInf == Max(MaxTime, MaxSrcTime) + 10

NaN == Max(MaxTime, MaxSrcTime) + 20

\* np.isfinite
IsFinite(v) == v # NegInf /\ v # PosInf /\ v # NaN

\* ceil(a / b) for b > 0
CeilDiv(a, b) == -((-a) \div b)

\* numpy .astype(np.int16)
ToInt16(v) == ((v + 32768) % 65536) - 32768

\* ------------------------------------------------------------------ input
\* Iteration order of session.drivers, hence of every dict keyed by vehicle.
DriverOrder == <<"A", "B", "C">>

Drivers == {DriverOrder[k] : k \in 1..Len(DriverOrder)}

\* list(d.keys()) of a dict d keyed by vehicle
Keys(d) == SelectSeq(DriverOrder, LAMBDA v : v \in DOMAIN d)

\* One raw telemetry sample without its timestamp (units of the source).
K1 == [x |-> 0, y |-> 0, distance |-> 90, speed |-> 200, throttle |-> 100,
       brake |-> 0, gear |-> 3, drs |-> 0, lap |-> 1]

K2 == [x |-> 10, y |-> -5, distance |-> 10, speed |-> 80, throttle |-> 0,
       brake |-> 1, gear |-> 4, drs |-> 1, lap |-> 2]

K3 == [x |-> -10, y |-> 5, distance |-> 110, speed |-> 300, throttle |-> 50,
       brake |-> 0, gear |-> 5, drs |-> 8, lap |-> 0]

K4 == [x |-> 5, y |-> 5, distance |-> 95, speed |-> 250, throttle |-> 80,
       brake |-> 0, gear |-> 6, drs |-> 0, lap |-> 2]

K5 == [x |-> 20, y |-> 0, distance |-> 50, speed |-> 150, throttle |-> 60,
       brake |-> 0, gear |-> 2, drs |-> 0, lap |-> 3]

ContinuousChannels == {"x", "y", "distance", "speed", "throttle", "brake"}

DiscreteChannels == {"gear", "drs", "lap"}

\* Non-decreasing sequences of length n over the integers of S.
SortedSeqs(S, n) == {s \in [1..n -> S] : \A k \in 1..(n - 1) : s[k] <= s[k + 1]}

\* The per-vehicle dict of arrays that extract_driver_telemetry stores:
\* timestamps ts and, at each index, the channel values of the sample ks[k].
MakeTel(ts, ks) ==
    [time     |-> ts,
     x        |-> [k \in 1..Len(ts) |-> ks[k].x * Scale],
     y        |-> [k \in 1..Len(ts) |-> ks[k].y * Scale],
     distance |-> [k \in 1..Len(ts) |-> ks[k].distance * Scale],
     speed    |-> [k \in 1..Len(ts) |-> ks[k].speed * Scale],
     gear     |-> [k \in 1..Len(ts) |-> ks[k].gear],
     drs      |-> [k \in 1..Len(ts) |-> ks[k].drs],
     lap      |-> [k \in 1..Len(ts) |-> ks[k].lap],
     throttle |-> [k \in 1..Len(ts) |-> ks[k].throttle * Scale],
     brake    |-> [k \in 1..Len(ts) |-> ks[k].brake * Scale]]

\* All time-sorted series of at most maxLen samples, timestamps in times.
Series(times, kinds, maxLen) ==
    UNION {{MakeTel(ts, ks) : ts \in SortedSeqs(times, n), ks \in [1..n -> kinds]} :
           n \in 0..maxLen}

\* A dict without the "time" key (tel.get("time", None) is None).
WithoutTime(tel) == [c \in (DOMAIN tel) \ {"time"} |-> tel[c]]

FpsValues == {f \in 1..TicksPerSec : TicksPerSec % f = 0}

\* ------------------------------------------------------------------ state
VARIABLES
    pc,             \* position in main: "stitch", "stitched", "stitch_error",
                    \* "timeline", "resample", "build_frames", "frames", "done", "error"
    fps,            \* args.fps
    lap_length,     \* lap length estimate passed to build_frames (times Scale)
    all_driver_tel, \* dict vehicle -> dict of raw channel arrays
    timeline,       \* replay time axis, ticks
    t0,             \* global window start, ticks
    t1,             \* global window end, ticks
    resampled,      \* dict vehicle -> dict of channel arrays aligned with timeline
    frames,         \* frames built so far
    prev_positions, \* build_frames: rank map of the previous frame
    session,        \* extract_driver_telemetry: vehicle -> its laps (session.laps)
    stitch_i,       \* extract_driver_telemetry: vehicles of session.drivers handled
    tyre_map,       \* build_frames: vehicle -> lap -> compound
    sector_data,    \* build_frames: (driver_sectors, overall_bests)
    pit_data,       \* build_frames: pit_data["stints"], vehicle -> list of stints
    race_control,   \* build_frames: race_control["track_status"], list of entries
    fastest_lap_events, \* build_frames: the fastest-lap events, in time order
    first_run,      \* timeline and frames returned by an earlier run of the
                    \* pipeline in the same process; << >> when there was none
    resampled_one,  \* dict vehicle -> what resample_driver returns for it
    files,          \* computed_data/: file name -> pickled content
    cache_call,     \* the last call of the replay cache: op, key and payload
    loaded,         \* what the last load_replay_cache returned
    web,            \* export_for_web: its arguments, loop position and output
    win,            \* F1ReplayWindow: the playback state of the window
    run             \* main: its arguments, position and local variables

\* The input and the loop position of extract_driver_telemetry.
stitchVars == <<session, stitch_i>>

\* The optional arguments of build_frames.
sideVars == <<tyre_map, sector_data, pit_data, race_control>>

\* The replay cache on disk and its last call.
cacheVars == <<files, cache_call, loaded>>

\* The state of the process around one run of the pipeline.
appVars == <<first_run, resampled_one, cacheVars, web, win, run>>

\* The state of one run of the pipeline.
pipeVars == <<pc, fps, lap_length, all_driver_tel, timeline, t0, t1, resampled, frames,
              prev_positions, session, stitch_i, tyre_map, sector_data, pit_data,
              race_control, fastest_lap_events>>

vars == <<pc, fps, lap_length, all_driver_tel, timeline, t0, t1, resampled, frames,
          prev_positions, session, stitch_i, tyre_map, sector_data, pit_data,
          race_control, fastest_lap_events, appVars>>

\* ------------------------------------------------ extract_driver_telemetry
\* session.drivers, in order.
SessionDrivers == Keys(session)

\* The order in which the channels of one lap are appended to the per-channel
\* lists (times, xs, ys, distances, speeds, gears, drs, throttle, brake, laps).
AppendOrder == <<"time", "x", "y", "distance", "speed", "gear", "drs", "throttle",
                 "brake", "lap">>

AppendIndex(c) == CHOOSE k \in 1..Len(AppendOrder) : AppendOrder[k] = c

\* The channel values of the telemetry rows of a lap: row 1 holds K1, row 2
\* holds K2, and so on in turn.
RowKinds == <<K1, K2>>

RowKind(r) == RowKinds[((r - 1) % Len(RowKinds)) + 1]

\* A lap is [times |-> SessionTime of its telemetry rows, fails |-> "none" or
\* the channel whose extraction raises]; lapNumber is lap["LapNumber"].
\* The array that the lap appends to the list of channel c.
LapArray(lap, lapNumber, c) ==
    [r \in 1..Len(lap.times) |->
        IF c = "time" THEN lap.times[r]
        ELSE IF c = "lap" THEN lapNumber
        ELSE IF c \in ContinuousChannels THEN RowKind(r)[c] * Scale
        ELSE RowKind(r)[c]]

\* Fault variant of Appends: a lap whose extraction raises has appended
\* nothing to any list.
Appends_AllOrNothing(lap, c) ==
    /\ Len(lap.times) > 0
    /\ lap.fails = "none"

\* The lap has appended its array to the list of channel c: its telemetry is
\* not empty and no exception was raised before the append of c.
Appends(lap, c) ==
    /\ Len(lap.times) > 0
    /\ (lap.fails = "none" \/ AppendIndex(c) < AppendIndex(lap.fails))

\* np.concatenate of the list of channel c after the first n laps.
RECURSIVE Concatenated(_, _, _)
Concatenated(laps, n, c) ==
    IF n = 0 THEN <<>>
    ELSE Concatenated(laps, n - 1, c)
             \o (IF Appends(laps[n], c) THEN LapArray(laps[n], n, c) ELSE <<>>)

\* driver_data before the sort
DriverData(laps) == [c \in DOMAIN K1 \cup {"time"} |-> Concatenated(laps, Len(laps), c)]

\* np.concatenate raises on an empty list, and driver_data[key][order] raises
\* when an array is shorter than the time array.
ArraysMismatch(data) == \E c \in DOMAIN data : Len(data[c]) # Len(data.time)

\* The permutations np.argsort may return: any order that sorts the array
\* (the default sort kind is not stable, equal timestamps come in any order).
ArgSorts(a) ==
    {p \in Permutations(1..Len(a)) : \A k \in 1..(Len(a) - 1) : a[p[k]] <= a[p[k + 1]]}

\* Fault variant of Reordered: only the time array is reordered.
Reordered_TimeOnly(data, order) ==
    [c \in DOMAIN data |->
        IF c = "time" THEN [k \in 1..Len(data[c]) |-> data[c][order[k]]] ELSE data[c]]

\* for key in driver_data: driver_data[key] = driver_data[key][order]
Reordered(data, order) ==
    [c \in DOMAIN data |-> [k \in 1..Len(data[c]) |-> data[c][order[k]]]]

\* (np.diff(driver_data["time"]) < 0).any()
TimeOrderingFails(time) == \E k \in 1..(Len(time) - 1) : time[k + 1] - time[k] < 0

\* Fault variant of Skipped: a vehicle with fewer than two samples is skipped.
Skipped_FewerThanTwo(laps) ==
    \/ Len(laps) = 0
    \/ Len(Concatenated(laps, Len(laps), "time")) < 2

\* `if driver_laps.empty: continue` and `if not times: continue`
Skipped(laps) ==
    \/ Len(laps) = 0
    \/ Len(Concatenated(laps, Len(laps), "time")) = 0

\* all_drivers_telemetry[driver_code] = driver_data
Stored(dict, d, data) == [v \in DOMAIN dict \cup {d} |-> IF v = d THEN data ELSE dict[v]]

\* One iteration of `for driver_number in session.drivers`.  An exception
\* raised outside the per-lap try block leaves the function: nothing is
\* returned.
ExtractDriver ==
    /\ pc = "stitch"
    /\ stitch_i < Len(SessionDrivers)
    /\ LET d    == SessionDrivers[stitch_i + 1]
           data == DriverData(session[d])
       IN  IF Skipped(session[d])
           THEN /\ stitch_i' = stitch_i + 1
                /\ UNCHANGED <<pc, all_driver_tel>>
           ELSE IF ArraysMismatch(data)
           THEN /\ pc' = "stitch_error"
                /\ UNCHANGED <<stitch_i, all_driver_tel>>
           ELSE \E order \in ArgSorts(data.time) :
                    IF TimeOrderingFails(Reordered(data, order).time)
                    THEN /\ pc' = "stitch_error"
                         /\ UNCHANGED <<stitch_i, all_driver_tel>>
                    ELSE /\ all_driver_tel' = Stored(all_driver_tel, d, Reordered(data, order))
                         /\ stitch_i' = stitch_i + 1
                         /\ UNCHANGED pc
    /\ UNCHANGED <<appVars, fps, lap_length, timeline, t0, t1, resampled, frames, prev_positions,
                   session, sideVars, fastest_lap_events>>

\* return all_drivers_telemetry
ReturnTelemetry ==
    /\ pc = "stitch"
    /\ stitch_i = Len(SessionDrivers)
    /\ pc' = "stitched"
    /\ UNCHANGED <<appVars, fps, lap_length, all_driver_tel, timeline, t0, t1, resampled, frames,
                   prev_positions, stitchVars, sideVars, fastest_lap_events>>

\* ------------------------------------------------- build_global_timeline
\* Fault variant of Usable: the test `t1 <= t0` is missing.
Usable_EmptyRangeKept(tel) ==
    /\ "time" \in DOMAIN tel
    /\ Len(tel.time) >= 2
    /\ IsFinite(tel.time[1])
    /\ IsFinite(tel.time[Len(tel.time)])

\* The vehicles whose (start, end) is appended to starts/ends.
Usable(tel) ==
    /\ "time" \in DOMAIN tel
    /\ Len(tel.time) >= 2
    /\ IsFinite(tel.time[1])
    /\ IsFinite(tel.time[Len(tel.time)])
    /\ tel.time[Len(tel.time)] > tel.time[1]

Starts(tels) == {tels[d].time[1] : d \in {v \in DOMAIN tels : Usable(tels[v])}}

Ends(tels) == {tels[d].time[Len(tels[d].time)] : d \in {v \in DOMAIN tels : Usable(tels[v])}}

SetMin(S) == CHOOSE m \in S : \A e \in S : m <= e

SetMax(S) == CHOOSE m \in S : \A e \in S : m >= e

\* Fault variant of WindowStart: the INTERSECTION window of the earlier
\* revision (t0 = max(starts)).
WindowStart_Intersection(tels) == SetMax(Starts(tels))

\* UNION window: t0 = min(starts), t1 = max(ends)
WindowStart(tels) == SetMin(Starts(tels))

WindowEnd(tels) == SetMax(Ends(tels))

\* dt = 1.0 / fps, in ticks
Dt(f) == TicksPerSec \div f

\* np.arange(start, stop, step): ceil((stop - start) / step) values
Arange(start, stop, step) ==
    [k \in 1..Max(0, CeilDiv(stop - start, step)) |-> start + (k - 1) * step]

\* Fault variant of TimelineOf: the range stops at the duration, so the frame
\* at or after the end of the window is missing.
TimelineOf_StopAtDuration(a, b, f) ==
    IF b - a <= 0 THEN <<0>> ELSE Arange(0, b - a, Dt(f))

\* The timeline returned for the window [a, b] at frame rate f.
TimelineOf(a, b, f) ==
    IF b - a <= 0 THEN <<0>> ELSE Arange(0, (b - a) + Dt(f), Dt(f))

BuildGlobalTimeline ==
    /\ pc = "timeline"
    /\ IF Starts(all_driver_tel) = {}
       THEN \* raise ValueError
            /\ pc' = "error"
            /\ UNCHANGED <<timeline, t0, t1>>
       ELSE /\ t0' = WindowStart(all_driver_tel)
            /\ t1' = WindowEnd(all_driver_tel)
            /\ timeline' = TimelineOf(t0', t1', fps)
            /\ pc' = IF Len(timeline') = 0 THEN "error" ELSE "resample"
    /\ UNCHANGED <<appVars, fps, lap_length, all_driver_tel, resampled, frames, prev_positions,
                   stitchVars, sideVars, fastest_lap_events>>

\* ------------------------------------------------------- resample helpers
\* np.searchsorted(a, v, side="right") on a sorted array a
SearchSortedRight(a, v) == Cardinality({k \in 1..Len(a) : a[k] <= v})

\* np.clip
Clip(v, lo, hi) == IF v < lo THEN lo ELSE IF v > hi THEN hi ELSE v

\* Fault variant of InterpAt: NaN outside the raw range (np.interp called with
\* left=np.nan, right=np.nan, as resample_driver does).
InterpAt_NanOutside(t_src, v_src, t) ==
    LET n  == Len(t_src)
        jr == SearchSortedRight(t_src, t)
    IN  IF t < t_src[1] THEN NaN
        ELSE IF t > t_src[n] THEN NaN
        ELSE IF jr = n THEN v_src[n]
        ELSE IF t_src[jr] = t THEN v_src[jr]
        ELSE v_src[jr]
             + ((v_src[jr + 1] - v_src[jr]) * (t - t_src[jr])) \div (t_src[jr + 1] - t_src[jr])

\* np.interp(t, t_src, v_src) at one query time t: the boundary value outside
\* [t_src[0], t_src[-1]], else the line through the samples j, j+1 around t,
\* j the last index with t_src[j] <= t (0-based j is jr - 1).
InterpAt(t_src, v_src, t) ==
    LET n  == Len(t_src)
        jr == SearchSortedRight(t_src, t)
    IN  IF t < t_src[1] THEN v_src[1]
        ELSE IF t > t_src[n] THEN v_src[n]
        ELSE IF jr = n THEN v_src[n]
        ELSE IF t_src[jr] = t THEN v_src[jr]
        ELSE v_src[jr]
             + ((v_src[jr + 1] - v_src[jr]) * (t - t_src[jr])) \div (t_src[jr + 1] - t_src[jr])

_interp_float(t_src, v_src, t_dst) ==
    [k \in 1..Len(t_dst) |-> InterpAt(t_src, v_src, t_dst[k])]

\* Fault variant of StepAt: searchsorted with side="left", which takes the
\* sample before the one whose timestamp equals t.
StepAt_SideLeft(t_src, v_src, t) ==
    v_src[Clip(Cardinality({k \in 1..Len(t_src) : t_src[k] < t}) - 1, 0, Len(v_src) - 1) + 1]

\* idx = clip(searchsorted(t_src, t, "right") - 1, 0, len(v_src) - 1); v_src[idx]
StepAt(t_src, v_src, t) ==
    v_src[Clip(SearchSortedRight(t_src, t) - 1, 0, Len(v_src) - 1) + 1]

_interp_stepwise(t_src, v_src, t_dst) ==
    [k \in 1..Len(t_dst) |-> StepAt(t_src, v_src, t_dst[k])]

AsInt16(a) == [k \in 1..Len(a) |-> ToInt16(a[k])]

\* Fault variant of ResampleOne: the discrete channels are interpolated like
\* the continuous ones.
ResampleOne_AllInterpolated(tel, tl, t_abs) ==
    [x        |-> _interp_float(tel.time, tel.x, t_abs),
     y        |-> _interp_float(tel.time, tel.y, t_abs),
     distance |-> _interp_float(tel.time, tel.distance, t_abs),
     speed    |-> _interp_float(tel.time, tel.speed, t_abs),
     throttle |-> _interp_float(tel.time, tel.throttle, t_abs),
     brake    |-> _interp_float(tel.time, tel.brake, t_abs),
     gear     |-> AsInt16(_interp_float(tel.time, tel.gear, t_abs)),
     drs      |-> AsInt16(_interp_float(tel.time, tel.drs, t_abs)),
     lap      |-> AsInt16(_interp_float(tel.time, tel.lap, t_abs)),
     time_abs |-> t_abs,
     time     |-> tl]

\* The dict `out` of one vehicle.
ResampleOne(tel, tl, t_abs) ==
    [x        |-> _interp_float(tel.time, tel.x, t_abs),
     y        |-> _interp_float(tel.time, tel.y, t_abs),
     distance |-> _interp_float(tel.time, tel.distance, t_abs),
     speed    |-> _interp_float(tel.time, tel.speed, t_abs),
     throttle |-> _interp_float(tel.time, tel.throttle, t_abs),
     brake    |-> _interp_float(tel.time, tel.brake, t_abs),
     gear     |-> AsInt16(_interp_stepwise(tel.time, tel.gear, t_abs)),
     drs      |-> AsInt16(_interp_stepwise(tel.time, tel.drs, t_abs)),
     lap      |-> AsInt16(_interp_stepwise(tel.time, tel.lap, t_abs)),
     time_abs |-> t_abs,
     time     |-> tl]

\* t_abs = timeline + t0
TAbs(tl, start) == [k \in 1..Len(tl) |-> tl[k] + start]

resample_all_drivers(tels, tl, start) ==
    [d \in {v \in DOMAIN tels : Len(tels[v].time) >= 2} |->
        ResampleOne(tels[d], tl, TAbs(tl, start))]

ResampleAllDrivers ==
    /\ pc = "resample"
    /\ resampled' = resample_all_drivers(all_driver_tel, timeline, t0)
    /\ pc' = "build_frames"
    /\ UNCHANGED <<appVars, fps, lap_length, all_driver_tel, timeline, t0, t1, frames,
                   prev_positions, stitchVars, sideVars, fastest_lap_events>>

\* ------------------------------------------------------------ build_frames
_norm_lap_distance(dist, lapLength) ==
    IF lapLength <= 0 THEN dist ELSE dist % lapLength

\* lap_i = int(lap_by[d][i]); if lap_i < 1: lap_i = 1
LapAt(rs, d, i) == IF rs[d].lap[i] < 1 THEN 1 ELSE rs[d].lap[i]

\* Fault variant of ProgressAt: the completed laps are left out.
ProgressAt_NoLap(rs, d, i, lapLength) ==
    _norm_lap_distance(rs[d].distance[i], lapLength)

\* progress = (lap_i - 1) * lap_length + lap_dist
ProgressAt(rs, d, i, lapLength) ==
    (LapAt(rs, d, i) - 1) * lapLength + _norm_lap_distance(rs[d].distance[i], lapLength)

\* progress_list before the sort: one (vehicle, progress) per vehicle, in dict order
ProgressList(rs, i, lapLength) ==
    [k \in 1..Len(Keys(rs)) |-> <<Keys(rs)[k], ProgressAt(rs, Keys(rs)[k], i, lapLength)>>]

\* Fault variant of InsertLeaderFirst: e goes ahead of the elements with an
\* equal key (a sort that is not stable).
InsertLeaderFirst_Unstable(sorted, e) ==
    LET ahead == Cardinality({k \in 1..Len(sorted) : sorted[k][2] > e[2]})
    IN  SubSeq(sorted, 1, ahead) \o <<e>> \o SubSeq(sorted, ahead + 1, Len(sorted))

\* One step of a stable sort by descending key: e goes behind every element
\* whose key is >= its own.
InsertLeaderFirst(sorted, e) ==
    LET ahead == Cardinality({k \in 1..Len(sorted) : sorted[k][2] >= e[2]})
    IN  SubSeq(sorted, 1, ahead) \o <<e>> \o SubSeq(sorted, ahead + 1, Len(sorted))

\* progress_list.sort(key=lambda x: x[1], reverse=True); list.sort is stable
RECURSIVE SortLeaderFirst(_)
SortLeaderFirst(pl) ==
    IF Len(pl) = 0 THEN <<>>
    ELSE InsertLeaderFirst(SortLeaderFirst(SubSeq(pl, 1, Len(pl) - 1)), pl[Len(pl)])

\* Fault variant of PositionsOf: vehicles with equal progress share a rank.
PositionsOf_SharedRank(sorted) ==
    [d \in {sorted[k][1] : k \in 1..Len(sorted)} |->
        1 + Cardinality({k \in 1..Len(sorted) :
                            \E j \in 1..Len(sorted) :
                                sorted[j][1] = d /\ sorted[k][2] > sorted[j][2]})]

\* positions = {drv: pos for pos, (drv, _) in enumerate(progress_list, start=1)}
PositionsOf(sorted) ==
    [d \in {sorted[k][1] : k \in 1..Len(sorted)} |->
        SetMax({k \in 1..Len(sorted) : sorted[k][1] = d})]

Positions(rs, i, lapLength) == PositionsOf(SortLeaderFirst(ProgressList(rs, i, lapLength)))

\* Fault variant of PassedDriver: the vehicle now at curr_pos + 1 is named
\* whatever its previous rank.
PassedDriver_AlwaysNext(positions, prev, d) ==
    LET cand == {o \in DOMAIN positions : o # d /\ positions[o] = positions[d] + 1}
    IN  IF cand = {} THEN "None" ELSE CHOOSE o \in cand : TRUE

\* The vehicle recorded as passed by d: the one now at curr_pos + 1, if it was
\* ahead of d before; "None" otherwise.
PassedDriver(positions, prev, d) ==
    LET cand == {o \in DOMAIN positions :
                    /\ o # d
                    /\ positions[o] = positions[d] + 1
                    /\ (IF o \in DOMAIN prev THEN prev[o] ELSE 0) < prev[d]}
    IN  IF cand = {} THEN "None" ELSE CHOOSE o \in cand : TRUE

\* position_changes of one frame
PositionChanges(keys, positions, prev, t) ==
    IF DOMAIN prev = {} THEN <<>>
    ELSE LET gained == SelectSeq(keys, LAMBDA d :
                           positions[d] < (IF d \in DOMAIN prev THEN prev[d] ELSE positions[d]))
         IN  [k \in 1..Len(gained) |->
                [driver   |-> gained[k],
                 from_pos |-> prev[gained[k]],
                 to_pos   |-> positions[gained[k]],
                 passed   |-> PassedDriver(positions, prev, gained[k]),
                 t        |-> t]]

\* None in a field that holds a number otherwise.
NoneNumber == -(Max(MaxTime, MaxSrcTime) + 30)

\* overall_bests when sector_data is None
DefaultBests ==
    [s1 |-> NoneNumber, s2 |-> NoneNumber, s3 |-> NoneNumber, lap |-> NoneNumber,
     fastest_driver |-> "None", fastest_lap_num |-> NoneNumber]

\* What build_frames unpacks when sector_data is None.  tyre_map, pit_data and
\* race_control that are None act as empty tables, and are modelled so.
NoSectorData == [driver_sectors |-> <<>>, overall_bests |-> DefaultBests]

\* The keys of a dict keyed by lap number, in ascending order (the tables are
\* filled lap after lap).
LapKeys(laps) ==
    CHOOSE q \in [1..Cardinality(DOMAIN laps) -> DOMAIN laps] :
        \A j, k \in 1..Cardinality(DOMAIN laps) : j < k => q[j] < q[k]

\* The completions appended for one vehicle: (s3_time, drv, lap_time, lap_num)
\* of every lap with a lap time > 0 and a completion time.
CompletionsOf(drv, laps) ==
    LET all == [k \in 1..Len(LapKeys(laps)) |->
                   [time     |-> laps[LapKeys(laps)[k]].s3_time,
                    driver   |-> drv,
                    lap_time |-> laps[LapKeys(laps)[k]].lap_time,
                    lap_num  |-> LapKeys(laps)[k]]]
    IN  SelectSeq(all, LAMBDA e : /\ e.lap_time # NoneNumber
                                  /\ e.time # NoneNumber
                                  /\ e.lap_time > 0)

\* all_lap_completions before the sort, after the first n vehicles
RECURSIVE LapCompletions(_, _)
LapCompletions(driver_sectors, n) ==
    IF n = 0 THEN <<>>
    ELSE LapCompletions(driver_sectors, n - 1)
             \o CompletionsOf(Keys(driver_sectors)[n], driver_sectors[Keys(driver_sectors)[n]])

\* One step of a stable sort by ascending time: e goes behind every element
\* whose time is <= its own.
InsertByTime(sorted, e) ==
    LET before == Cardinality({k \in 1..Len(sorted) : sorted[k].time <= e.time})
    IN  SubSeq(sorted, 1, before) \o <<e>> \o SubSeq(sorted, before + 1, Len(sorted))

\* all_lap_completions.sort(key=lambda x: x[0])
RECURSIVE SortByTime(_)
SortByTime(cs) ==
    IF Len(cs) = 0 THEN <<>>
    ELSE InsertByTime(SortByTime(SubSeq(cs, 1, Len(cs) - 1)), cs[Len(cs)])

\* Fault variant of Improves: a lap as fast as the fastest one is an event too.
Improves_OrEqual(events, c) ==
    \/ Len(events) = 0
    \/ c.lap_time <= events[Len(events)].lap_time

\* lap_time < current_fastest: current_fastest is the lap time of the last
\* event, infinity before the first one.
Improves(events, c) ==
    \/ Len(events) = 0
    \/ c.lap_time < events[Len(events)].lap_time

\* fastest_lap_events after the first n sorted completions
RECURSIVE Improvements(_, _)
Improvements(cs, n) ==
    IF n = 0 THEN <<>>
    ELSE IF Improves(Improvements(cs, n - 1), cs[n])
         THEN Append(Improvements(cs, n - 1), cs[n])
         ELSE Improvements(cs, n - 1)

FastestLapEvents(driver_sectors) ==
    LET cs == SortByTime(LapCompletions(driver_sectors, Len(Keys(driver_sectors))))
    IN  Improvements(cs, Len(cs))

\* Fault variant of HeldEntry: an entry at exactly time t does not count yet.
HeldEntry_Strict(list, t) ==
    LET later == {k \in 1..Len(list) : list[k].time >= t}
    IN  IF later = {} THEN Len(list) ELSE SetMin(later) - 1

\* The loop `for e in list: if e.time <= t: take e, else: break`: the index of
\* the entry taken last, 0 when none is taken.
HeldEntry(list, t) ==
    LET later == {k \in 1..Len(list) : list[k].time > t}
    IN  IF later = {} THEN Len(list) ELSE SetMin(later) - 1

\* track_status_list entries are [time |-> entry["t"], status |-> entry["status"]]
_get_track_status_at_time(t, track_status_list) ==
    IF HeldEntry(track_status_list, t) = 0 THEN "GREEN"
    ELSE track_status_list[HeldEntry(track_status_list, t)].status

\* Seconds a new fastest lap is flagged as new.
NewFastestLapSecs == 5

\* Fault variant of IsNew: the flag never expires.
IsNew_NoExpiry(t, fl_set_time) ==
    /\ fl_set_time # NoneNumber
    /\ 0 <= t - fl_set_time

\* fl_set_time is not None and 0 <= (t - fl_set_time) <= 5.0
IsNew(t, fl_set_time) ==
    /\ fl_set_time # NoneNumber
    /\ 0 <= t - fl_set_time
    /\ t - fl_set_time <= NewFastestLapSecs * TicksPerSec

\* Fault variant of FastestLapInfo: the first event that is not later than t
\* is reported, not the last one.
FastestLapInfo_FirstEvent(events, t) ==
    LET k == IF HeldEntry(events, t) = 0 THEN 0 ELSE 1
    IN  [driver  |-> IF k = 0 THEN "None" ELSE events[k].driver,
         time    |-> IF k = 0 THEN NoneNumber ELSE events[k].lap_time,
         lap_num |-> IF k = 0 THEN NoneNumber ELSE events[k].lap_num,
         is_new  |-> IsNew(t, IF k = 0 THEN NoneNumber ELSE events[k].time)]

\* fastest_lap_info of the frame at time t
FastestLapInfo(events, t) ==
    LET k == HeldEntry(events, t)
    IN  [driver  |-> IF k = 0 THEN "None" ELSE events[k].driver,
         time    |-> IF k = 0 THEN NoneNumber ELSE events[k].lap_time,
         lap_num |-> IF k = 0 THEN NoneNumber ELSE events[k].lap_num,
         is_new  |-> IsNew(t, IF k = 0 THEN NoneNumber ELSE events[k].time)]

\* compound = tyre_map.get(d, {}).get(lap_i, None)
CompoundAt(tm, d, lap) ==
    IF d \in DOMAIN tm /\ lap \in DOMAIN tm[d] THEN tm[d][lap] ELSE "None"

\* d in driver_sectors and lap_i in driver_sectors[d]
HasSectors(driver_sectors, d, lap) ==
    d \in DOMAIN driver_sectors /\ lap \in DOMAIN driver_sectors[d]

\* Fault variant of StintAt: without a stint for the lap, the last stint of
\* the list is reported.
StintAt_LastKnown(driver_stints, lap) ==
    LET stop == {k \in 1..Len(driver_stints) :
                    \/ (driver_stints[k].start_lap <= lap /\ lap <= driver_stints[k].end_lap)
                    \/ driver_stints[k].start_lap > lap}
        k    == IF stop = {} THEN 0 ELSE SetMin(stop)
    IN  IF k # 0 /\ driver_stints[k].start_lap <= lap
        THEN [stint |-> driver_stints[k].stint,
              tyre_life |-> lap - driver_stints[k].start_lap + 1]
        ELSE IF Len(driver_stints) > 0
        THEN [stint |-> driver_stints[Len(driver_stints)].stint, tyre_life |-> 0]
        ELSE [stint |-> 1, tyre_life |-> 0]

\* The loop over driver_stints: it stops at the first stint that holds the lap
\* or starts after it; current_stint and tyre_life keep 1 and 0 unless the
\* stint it stops at holds the lap.
StintAt(driver_stints, lap) ==
    LET stop == {k \in 1..Len(driver_stints) :
                    \/ (driver_stints[k].start_lap <= lap /\ lap <= driver_stints[k].end_lap)
                    \/ driver_stints[k].start_lap > lap}
        k    == IF stop = {} THEN 0 ELSE SetMin(stop)
    IN  IF k # 0 /\ driver_stints[k].start_lap <= lap
        THEN [stint |-> driver_stints[k].stint,
              tyre_life |-> lap - driver_stints[k].start_lap + 1]
        ELSE [stint |-> 1, tyre_life |-> 0]

\* stints_data.get(d, [])
StintsOf(stints_data, d) == IF d \in DOMAIN stints_data THEN stints_data[d] ELSE <<>>

\* st: the state of vehicle d in frame i, given the tyre map tm, the sector
\* table sd and the stint table pd.
DriverState(rs, d, i, lapLength, positions, tm, sd, pd) ==
    [x            |-> rs[d].x[i],
     y            |-> rs[d].y[i],
     speed        |-> rs[d].speed[i],
     distance     |-> rs[d].distance[i],
     lap          |-> LapAt(rs, d, i),
     gear         |-> rs[d].gear[i],
     drs          |-> rs[d].drs[i],
     progress     |-> ProgressAt(rs, d, i, lapLength),
     pos          |-> positions[d],
     compound     |-> CompoundAt(tm, d, LapAt(rs, d, i)),
     throttle     |-> rs[d].throttle[i],
     brake        |-> rs[d].brake[i],
     sector_times |-> IF HasSectors(sd.driver_sectors, d, LapAt(rs, d, i))
                      THEN [s1 |-> sd.driver_sectors[d][LapAt(rs, d, i)].s1,
                            s2 |-> sd.driver_sectors[d][LapAt(rs, d, i)].s2,
                            s3 |-> sd.driver_sectors[d][LapAt(rs, d, i)].s3]
                      ELSE [s1 |-> NoneNumber, s2 |-> NoneNumber, s3 |-> NoneNumber],
     lap_time     |-> IF HasSectors(sd.driver_sectors, d, LapAt(rs, d, i))
                      THEN sd.driver_sectors[d][LapAt(rs, d, i)].lap_time
                      ELSE NoneNumber,
     stint        |-> StintAt(StintsOf(pd, d), LapAt(rs, d, i)).stint,
     tyre_life    |-> StintAt(StintsOf(pd, d), LapAt(rs, d, i)).tyre_life,
     pit_count    |-> Max(0, StintAt(StintsOf(pd, d), LapAt(rs, d, i)).stint - 1)]

\* The frame appended for timeline index i (1-based).  weather_data is None
\* and race_control carries no messages besides the track status log.
FrameAt(rs, tl, i, lapLength, prev, tm, sd, pd, rc, events) ==
    [t                |-> tl[i],
     drivers          |-> [d \in DOMAIN rs |->
                              DriverState(rs, d, i, lapLength, Positions(rs, i, lapLength),
                                          tm, sd, pd)],
     weather          |-> <<>>,
     track_status     |-> _get_track_status_at_time(tl[i], rc),
     race_messages    |-> <<>>,
     fastest_lap      |-> FastestLapInfo(events, tl[i]),
     position_changes |-> PositionChanges(Keys(rs), Positions(rs, i, lapLength), prev, tl[i]),
     overall_bests    |-> sd.overall_bests]

\* Fault variant of BeginFrames: the rank map of the previous frame lives
\* outside the call and is not emptied when build_frames is entered.
BeginFrames_PrevShared ==
    /\ pc = "build_frames"
    /\ fastest_lap_events' = FastestLapEvents(sector_data.driver_sectors)
    /\ prev_positions' = prev_positions
    /\ frames' = <<>>
    /\ pc' = "frames"
    /\ UNCHANGED <<appVars, fps, lap_length, all_driver_tel, timeline, t0, t1, resampled,
                   stitchVars, sideVars>>

\* build_frames up to its frame loop: the fastest-lap events are computed
\* from the sector table, the rank map and the frame list start empty.
BeginFrames ==
    /\ pc = "build_frames"
    /\ fastest_lap_events' = FastestLapEvents(sector_data.driver_sectors)
    /\ prev_positions' = <<>>
    /\ frames' = <<>>
    /\ pc' = "frames"
    /\ UNCHANGED <<appVars, fps, lap_length, all_driver_tel, timeline, t0, t1, resampled,
                   stitchVars, sideVars>>

\* Fault variant of BuildFrame: the rank map is filled by the first frame and
\* never replaced.
BuildFrame_PrevKept ==
    /\ pc = "frames"
    /\ Len(frames) < Len(timeline)
    /\ frames' = Append(frames,
                        FrameAt(resampled, timeline, Len(frames) + 1, lap_length,
                                prev_positions, tyre_map, sector_data, pit_data,
                                race_control, fastest_lap_events))
    /\ prev_positions' = IF DOMAIN prev_positions = {}
                         THEN Positions(resampled, Len(frames) + 1, lap_length)
                         ELSE prev_positions
    /\ UNCHANGED <<appVars, pc, fps, lap_length, all_driver_tel, timeline, t0, t1, resampled,
                   stitchVars, sideVars, fastest_lap_events>>

\* One iteration of `for i in range(n_frames)`.
BuildFrame ==
    /\ pc = "frames"
    /\ Len(frames) < Len(timeline)
    /\ frames' = Append(frames,
                        FrameAt(resampled, timeline, Len(frames) + 1, lap_length,
                                prev_positions, tyre_map, sector_data, pit_data,
                                race_control, fastest_lap_events))
    /\ prev_positions' = Positions(resampled, Len(frames) + 1, lap_length)
    /\ UNCHANGED <<appVars, pc, fps, lap_length, all_driver_tel, timeline, t0, t1, resampled,
                   stitchVars, sideVars, fastest_lap_events>>

\* return frames
ReturnFrames ==
    /\ pc = "frames"
    /\ Len(frames) = Len(timeline)
    /\ pc' = "done"
    /\ UNCHANGED <<appVars, fps, lap_length, all_driver_tel, timeline, t0, t1, resampled, frames,
                   prev_positions, stitchVars, sideVars, fastest_lap_events>>

\* ---------------------------------------------------------- resample_driver
\* float64 NaN as the value of a channel.
NanValue == -(1000 * Scale)

\* np.interp(t, t_src, v_src, left=np.nan, right=np.nan) at one query time t.
InterpNanAt(t_src, v_src, t) ==
    LET n  == Len(t_src)
        jr == SearchSortedRight(t_src, t)
    IN  IF t < t_src[1] THEN NanValue
        ELSE IF t > t_src[n] THEN NanValue
        ELSE IF jr = n THEN v_src[n]
        ELSE IF t_src[jr] = t THEN v_src[jr]
        ELSE v_src[jr]
             + ((v_src[jr + 1] - v_src[jr]) * (t - t_src[jr])) \div (t_src[jr + 1] - t_src[jr])

\* The values of channel c in units of 1 / Scale: the continuous channels are
\* stored so, gear, drs and lap are stored as integers.
InScale(c, a) ==
    IF c \in DiscreteChannels THEN [k \in 1..Len(a) |-> a[k] * Scale] ELSE a

\* resample_driver: every key but "time" goes through np.interp against
\* driver_time = time - t0.  All the channels of the result are in units of
\* 1 / Scale, since an interpolated gear, drs or lap need not be an integer.
resample_driver(driver_telemetry, tl, start) ==
    LET driver_time == [k \in 1..Len(driver_telemetry.time) |->
                           driver_telemetry.time[k] - start]
    IN  [key \in (DOMAIN driver_telemetry) \ {"time"} |->
            [k \in 1..Len(tl) |->
                InterpNanAt(driver_time, InScale(key, driver_telemetry[key]), tl[k])]]

\* resample_driver is called for every vehicle resample_all_drivers kept,
\* with the same timeline and t0.
ResampleDriver ==
    /\ pc = "build_frames"
    /\ DOMAIN resampled # {}
    /\ resampled_one = <<>>
    /\ resampled_one' = [d \in DOMAIN resampled |->
                            resample_driver(all_driver_tel[d], timeline, t0)]
    /\ UNCHANGED <<first_run, cacheVars, web, win, run, pc, fps, lap_length, all_driver_tel, timeline,
                   t0, t1, resampled, frames, prev_positions, stitchVars, sideVars,
                   fastest_lap_events>>

\* ------------------------------------------------------------ replay cache
\* Strings are sequences of one-character strings.
DigitChars == <<"0", "1", "2", "3", "4", "5", "6", "7", "8", "9">>

RECURSIVE Decimal(_)
\* str(n) of an integer n >= 0
Decimal(n) ==
    IF n < 10 THEN <<DigitChars[n + 1]>>
    ELSE Decimal(n \div 10) \o <<DigitChars[(n % 10) + 1]>>

\* f"{n:02d}" of an integer n >= 0
Pad02(n) == IF n < 10 THEN <<"0">> \o Decimal(n) ELSE Decimal(n)

\* Fault variant of _cache_file_path: the frame rate is not part of the name.
_cache_file_path_NoFps(year, round_number, session_code, rate) ==
    Decimal(year) \o <<"_", "R">> \o Pad02(round_number) \o <<"_">> \o session_code
        \o <<".", "p", "k", "l">>

\* f"{year}_R{round_number:02d}_{session_code}_fps{fps}.pkl" in cache_dir
_cache_file_path(year, round_number, session_code, rate) ==
    Decimal(year) \o <<"_", "R">> \o Pad02(round_number) \o <<"_">> \o session_code
        \o <<"_", "f", "p", "s">> \o Decimal(rate) \o <<".", "p", "k", "l">>

\* pickle.dump of the payload dict: its items in insertion order.
PickleDump(meta, tl, fr) == <<<<"meta", meta>>, <<"timeline", tl>>, <<"frames", fr>>>>

\* pickle.load: the dict of the stored items.
PickleLoad(bytes) ==
    [k \in {bytes[i][1] : i \in 1..Len(bytes)} |->
        bytes[CHOOSE i \in 1..Len(bytes) : bytes[i][1] = k][2]]

\* load_replay_cache returns None.
NoCache == <<>>

\* What load_replay_cache returns for a key when the directory holds fs.
LoadResult(fs, year, round_number, session_code, rate) ==
    LET path == _cache_file_path(year, round_number, session_code, rate)
    IN  IF path \notin DOMAIN fs THEN NoCache
        ELSE LET obj == PickleLoad(fs[path])
             IN  IF {"meta", "timeline", "frames"} \subseteq DOMAIN obj
                 THEN [meta |-> obj["meta"], timeline |-> obj["timeline"],
                       frames |-> obj["frames"]]
                 ELSE NoCache

\* The keys and the replays the cache is called with.
CacheKeys ==
    {[year |-> 2023, round |-> 1, session |-> <<"Q">>, fps |-> 25],
     [year |-> 2024, round |-> 1, session |-> <<"Q">>, fps |-> 25],
     [year |-> 2023, round |-> 11, session |-> <<"Q">>, fps |-> 25],
     [year |-> 2023, round |-> 1, session |-> <<"Q">>, fps |-> 5],
     [year |-> 2023, round |-> 1, session |-> <<"Q", "_", "f", "p", "s", "2">>, fps |-> 5]}

Replays ==
    {[meta |-> [event_name |-> "Monza"], timeline |-> <<0>>, frames |-> <<[t |-> 0]>>],
     [meta |-> [event_name |-> "Spa"], timeline |-> <<0, 1>>,
      frames |-> <<[t |-> 0], [t |-> 1]>>]}

\* save_replay_cache(year, round, session, fps, meta, timeline, frames)
SaveReplayCache ==
    \E k \in CacheKeys : \E r \in Replays :
        LET path == _cache_file_path(k.year, k.round, k.session, k.fps)
        IN  /\ files' = [f \in (DOMAIN files) \cup {path} |->
                            IF f = path THEN PickleDump(r.meta, r.timeline, r.frames)
                            ELSE files[f]]
            /\ cache_call' = [op |-> "save", key |-> k, payload |-> r]
            /\ UNCHANGED <<loaded, first_run, resampled_one, web, win, run, pipeVars>>

\* load_replay_cache(year, round, session, fps)
LoadReplayCache ==
    \E k \in CacheKeys :
        /\ loaded' = LoadResult(files, k.year, k.round, k.session, k.fps)
        /\ cache_call' = [op |-> "load", key |-> k]
        /\ UNCHANGED <<files, first_run, resampled_one, web, win, run, pipeVars>>

\* --------------------------------------------------------------- web export
\* The numbers of the exported frames are in thousandths of their unit.
CHUNK_SIZE == 1000

RECURSIVE Pow10(_)
Pow10(n) == IF n = 0 THEN 1 ELSE 10 * Pow10(n - 1)

\* round(v) to a multiple of step, ties to the even multiple
RoundHalfEven(v, step) ==
    LET q == v \div step
        r == v % step
    IN  IF 2 * r < step THEN q * step
        ELSE IF 2 * r > step THEN (q + 1) * step
        ELSE IF q % 2 = 0 THEN q * step ELSE (q + 1) * step

\* _round_or_none(val, decimals) of a finite number or None
_round_or_none(val, decimals) ==
    IF val = NoneNumber THEN NoneNumber ELSE RoundHalfEven(val, Pow10(3 - decimals))

\* int(round(float(v)))
IntRound(v) == RoundHalfEven(v, 1000) \div 1000

\* None where a dict is expected; an empty dict is modelled alike (both are
\* falsy and have no key).
NoneDict == <<>>

_compact_driver(drv_state) ==
    [x  |-> _round_or_none(drv_state.x, 1),
     y  |-> _round_or_none(drv_state.y, 1),
     s  |-> IntRound(drv_state.speed),
     g  |-> drv_state.gear,
     d  |-> drv_state.drs,
     t  |-> IntRound(drv_state.throttle),
     b  |-> IntRound(drv_state.brake),
     l  |-> drv_state.lap,
     p  |-> drv_state.pos,
     pr |-> _round_or_none(drv_state.progress, 1),
     di |-> _round_or_none(drv_state.distance, 1),
     cp |-> drv_state.compound,
     st |-> drv_state.stint,
     tl |-> drv_state.tyre_life,
     pc |-> drv_state.pit_count,
     s1 |-> _round_or_none(drv_state.sector_times.s1, 3),
     s2 |-> _round_or_none(drv_state.sector_times.s2, 3),
     s3 |-> _round_or_none(drv_state.sector_times.s3, 3),
     lt |-> _round_or_none(drv_state.lap_time, 3)]

_compact_weather(weather) ==
    IF DOMAIN weather = {} THEN NoneDict
    ELSE [at |-> _round_or_none(weather.AirTemp, 1),
          tt |-> _round_or_none(weather.TrackTemp, 1),
          hu |-> _round_or_none(weather.Humidity, 0),
          rf |-> weather.Rainfall,
          ws |-> _round_or_none(weather.WindSpeed, 1)]

_compact_fastest_lap(fl) ==
    IF DOMAIN fl = {} \/ fl.driver = "None" THEN NoneDict
    ELSE [dr |-> fl.driver,
          tm |-> _round_or_none(fl.time, 3),
          ln |-> fl.lap_num,
          nw |-> fl.is_new]

_compact_position_changes(changes) ==
    [k \in 1..Len(changes) |->
        [dr |-> changes[k].driver,
         fp |-> changes[k].from_pos,
         tp |-> changes[k].to_pos,
         pa |-> changes[k].passed,
         t  |-> _round_or_none(changes[k].t, 2)]]

_compact_race_messages(msgs) ==
    [k \in 1..Len(msgs) |->
        [ty |-> msgs[k].type,
         dr |-> msgs[k].driver,
         mg |-> msgs[k].message,
         ag |-> _round_or_none(msgs[k].age, 1)]]

_compact_overall_bests(bests) ==
    IF DOMAIN bests = {} THEN NoneDict
    ELSE [s1 |-> _round_or_none(bests.s1, 3),
          s2 |-> _round_or_none(bests.s2, 3),
          s3 |-> _round_or_none(bests.s3, 3),
          lp |-> _round_or_none(bests.lap, 3),
          fd |-> bests.fastest_driver,
          fn |-> bests.fastest_lap_num]

_dicts_equal(a, b) == a = b

\* prev_frame_compact.get(key) if prev_frame_compact else None
PrevGet(prev_frame_compact, key, none) ==
    IF key \in DOMAIN prev_frame_compact THEN prev_frame_compact[key] ELSE none

\* _build_compact_frame: t and dr always; w, ts, fl and ob when they differ
\* from the previous state (None without one); pc and rm when not empty.
_build_compact_frame(frame, prev_frame_compact) ==
    LET weather       == _compact_weather(frame.weather)
        fastest_lap   == _compact_fastest_lap(frame.fastest_lap)
        overall_bests == _compact_overall_bests(frame.overall_bests)
        present ==
            {"t", "dr"}
            \cup (IF ~_dicts_equal(weather, PrevGet(prev_frame_compact, "w", NoneDict))
                  THEN {"w"} ELSE {})
            \cup (IF frame.track_status # PrevGet(prev_frame_compact, "ts", "None")
                  THEN {"ts"} ELSE {})
            \cup (IF ~_dicts_equal(fastest_lap, PrevGet(prev_frame_compact, "fl", NoneDict))
                  THEN {"fl"} ELSE {})
            \cup (IF ~_dicts_equal(overall_bests, PrevGet(prev_frame_compact, "ob", NoneDict))
                  THEN {"ob"} ELSE {})
            \cup (IF Len(frame.position_changes) > 0 THEN {"pc"} ELSE {})
            \cup (IF Len(frame.race_messages) > 0 THEN {"rm"} ELSE {})
    IN  [k \in present |->
            CASE k = "t"  -> RoundHalfEven(frame.t, 10)
              [] k = "dr" -> [d \in DOMAIN frame.drivers |-> _compact_driver(frame.drivers[d])]
              [] k = "w"  -> weather
              [] k = "ts" -> frame.track_status
              [] k = "fl" -> fastest_lap
              [] k = "ob" -> overall_bests
              [] k = "pc" -> _compact_position_changes(frame.position_changes)
              [] k = "rm" -> _compact_race_messages(frame.race_messages)]

\* _build_delta_state: the previous state, updated with the delta fields the
\* compact frame carries.
_build_delta_state(compact, prev_state) ==
    LET carried == (DOMAIN compact) \cap {"w", "ts", "fl", "ob"}
    IN  [k \in (DOMAIN prev_state) \cup carried |->
            IF k \in carried THEN compact[k] ELSE prev_state[k]]

\* Frames as build_frames returns them: without weather and fastest lap, with
\* both, and with an overtake and a changed track status.
WebDriver ==
    [x |-> 12340, y |-> -5670, speed |-> 201600, gear |-> 3, drs |-> 0,
     throttle |-> 99600, brake |-> 0, lap |-> 1, pos |-> 1, progress |-> 90120,
     distance |-> 90120, compound |-> "SOFT", stint |-> 1, tyre_life |-> 1,
     pit_count |-> 0,
     sector_times |-> [s1 |-> 28123, s2 |-> NoneNumber, s3 |-> NoneNumber],
     lap_time |-> NoneNumber]

BareFrame ==
    [t |-> 0, drivers |-> <<>>, weather |-> <<>>, track_status |-> "GREEN",
     race_messages |-> <<>>,
     fastest_lap |-> [time |-> NoneNumber, driver |-> "None", lap_num |-> NoneNumber,
                      is_new |-> FALSE],
     position_changes |-> <<>>, overall_bests |-> DefaultBests]

FullFrame ==
    [t |-> 0, drivers |-> [d \in {"A"} |-> WebDriver],
     weather |-> [AirTemp |-> 25340, TrackTemp |-> 38760, Humidity |-> 41200,
                  Rainfall |-> FALSE, WindSpeed |-> 1230],
     track_status |-> "GREEN", race_messages |-> <<>>,
     fastest_lap |-> [time |-> 88123, driver |-> "A", lap_num |-> 2, is_new |-> TRUE],
     position_changes |-> <<>>, overall_bests |-> DefaultBests]

BusyFrame ==
    [FullFrame EXCEPT
        !.track_status = "YELLOW",
        !.position_changes = <<[driver |-> "A", from_pos |-> 2, to_pos |-> 1,
                                passed |-> "B", t |-> 1234]>>,
        !.race_messages = <<[type |-> "flag", driver |-> "", message |-> "YELLOW",
                             age |-> 1260]>>]

WebPatterns ==
    {<<BareFrame>>, <<FullFrame>>, <<FullFrame, BareFrame>>,
     <<BareFrame, FullFrame, BusyFrame>>}

\* The number of frames handed to export_for_web.
FrameCounts == {1, CHUNK_SIZE, CHUNK_SIZE + 2}

\* Milliseconds between two frames (25 frames per second).
FrameMillis == 40

\* frames[i] (i from 0) of the export: the pattern repeats, t grows.
WebFrame(i) == [web.pattern[(i % Len(web.pattern)) + 1] EXCEPT !.t = i * FrameMillis]

\* n_chunks = math.ceil(n_frames / CHUNK_SIZE)
NChunks == CeilDiv(web.n_frames, CHUNK_SIZE)

\* end = min(start + CHUNK_SIZE, n_frames)
ChunkEnd == IF web.chunk_idx * CHUNK_SIZE + CHUNK_SIZE < web.n_frames
            THEN web.chunk_idx * CHUNK_SIZE + CHUNK_SIZE ELSE web.n_frames

WebRest == <<first_run, resampled_one, cacheVars, win, run, pipeVars>>

\* One iteration of `for chunk_idx in range(n_chunks)` up to its inner loop.
BeginChunk ==
    /\ web.pc = "chunks"
    /\ web.chunk_idx < NChunks
    /\ web' = [web EXCEPT !.pc = "frames", !.i = web.chunk_idx * CHUNK_SIZE,
                          !.chunk_frames = <<>>, !.prev_compact = NoneDict]
    /\ UNCHANGED WebRest

\* One iteration of `for i in range(start, end)`.
CompactFrame ==
    /\ web.pc = "frames"
    /\ web.i < ChunkEnd
    /\ LET compact == _build_compact_frame(WebFrame(web.i), web.prev_compact)
       IN  web' = [web EXCEPT !.chunk_frames = Append(@, compact),
                              !.prev_compact = _build_delta_state(compact, @),
                              !.i = @ + 1]
    /\ UNCHANGED WebRest

\* _write_json(session_path / chunk_fname, chunk_frames)
WriteChunk ==
    /\ web.pc = "frames"
    /\ web.i = ChunkEnd
    /\ web' = [web EXCEPT !.pc = "chunks", !.chunks = Append(@, web.chunk_frames),
                          !.chunk_idx = @ + 1]
    /\ UNCHANGED WebRest

\* The manifest, written after the last chunk.
WriteManifest ==
    /\ web.pc = "chunks"
    /\ web.chunk_idx = NChunks
    /\ web' = [web EXCEPT !.pc = "done",
                          !.manifest = [totalFrames |-> web.n_frames,
                                        chunkSize   |-> CHUNK_SIZE,
                                        chunkCount  |-> NChunks,
                                        duration |-> RoundHalfEven(WebFrame(web.n_frames - 1).t, 10)]]
    /\ UNCHANGED WebRest

\* ------------------------------------------------------------ replay window
\* A click on the progress bar lands on one of ClickSteps + 1 evenly spaced
\* points of the bar; frame_idx is kept in units of 1 / FrameUnit frames, which
\* holds every value progress * (n_frames - 1) and half a frame exactly.
ClickSteps == 2

MaxWinFrames == 20

FrameUnit == 2 * ClickSteps

\* self.speed_choices = [0.5, 1.0, 2.0, 4.0, 8.0, 16.0, 32.0, 64.0], in units of
\* 1 / FrameUnit frames
speed_choices ==
    <<FrameUnit \div 2, FrameUnit, 2 * FrameUnit, 4 * FrameUnit, 8 * FrameUnit,
      16 * FrameUnit, 32 * FrameUnit, 64 * FrameUnit>>

Min(a, b) == IF a <= b THEN a ELSE b

\* self.n_frames - 1 in units of 1 / FrameUnit frames
LastFrame == (win.n_frames - 1) * FrameUnit

WinRest == <<first_run, resampled_one, cacheVars, web, run, pipeVars>>

\* Fault variant of on_update: the cursor is not held at the last frame.
on_update_NoClamp ==
    /\ win.pc = "open"
    /\ IF win.paused
       THEN win' = [win EXCEPT !.event = "update"]
       ELSE win' = [win EXCEPT !.event = "update",
                               !.frame_idx = @ + speed_choices[win.speed_i + 1],
                               !.paused = (win.frame_idx + speed_choices[win.speed_i + 1]
                                              >= LastFrame)]
    /\ UNCHANGED WinRest

\* on_update(delta_time)
on_update ==
    /\ win.pc = "open"
    /\ IF win.paused
       THEN win' = [win EXCEPT !.event = "update"]
       ELSE LET moved == win.frame_idx + speed_choices[win.speed_i + 1]
            IN  IF moved >= LastFrame
                THEN win' = [win EXCEPT !.event = "update", !.frame_idx = LastFrame,
                                        !.paused = TRUE]
                ELSE win' = [win EXCEPT !.event = "update", !.frame_idx = moved]
    /\ UNCHANGED WinRest

\* on_draw: reads frames[int(frame_idx)]; _draw_progress_bar stores the bounds
\* of the bar when the bar is shown.
on_draw ==
    /\ win.pc = "open"
    /\ win.frame_idx \div FrameUnit \in 0..(win.n_frames - 1)
    /\ win' = [win EXCEPT !.event = "draw",
                          !.has_rect = @ \/ win.show_progress_bar]
    /\ UNCHANGED WinRest

\* on_mouse_press with the left button: inside the bar at point k of
\* 0..ClickSteps, or outside the bar.
on_mouse_press ==
    /\ win.pc = "open"
    /\ \E inside \in BOOLEAN : \E k \in 0..ClickSteps :
          IF win.show_progress_bar /\ win.has_rect /\ inside
          THEN win' = [win EXCEPT
                          !.event = "click",
                          !.frame_idx = Max(0, Min((k * LastFrame) \div ClickSteps, LastFrame))]
          ELSE win' = [win EXCEPT !.event = "click"]
    /\ UNCHANGED WinRest

\* on_key_press: SPACE, R, P, UP, DOWN, RIGHT, LEFT
on_key_press ==
    /\ win.pc = "open"
    /\ \E symbol \in {"SPACE", "R", "P", "UP", "DOWN", "RIGHT", "LEFT"} :
          win' =
            CASE symbol = "SPACE" -> [win EXCEPT !.event = symbol, !.paused = ~@]
              [] symbol = "R"     -> [win EXCEPT !.event = symbol, !.frame_idx = 0,
                                                 !.paused = FALSE]
              [] symbol = "P"     -> [win EXCEPT !.event = symbol, !.show_progress_bar = ~@]
              [] symbol = "UP"    -> [win EXCEPT !.event = symbol,
                                         !.speed_i = Min(@ + 1, Len(speed_choices) - 1)]
              [] symbol = "DOWN"  -> [win EXCEPT !.event = symbol, !.speed_i = Max(@ - 1, 0)]
              [] symbol = "RIGHT" -> [win EXCEPT !.event = symbol,
                                         !.frame_idx = Min(@ + win.fps * 5 * FrameUnit, LastFrame)]
              [] symbol = "LEFT"  -> [win EXCEPT !.event = symbol,
                                         !.frame_idx = Max(@ - win.fps * 5 * FrameUnit, 0)]
    /\ UNCHANGED WinRest

\* --------------------------------------------------------------------- main
\* The local variables timeline and frames of main hold "unbound" before any
\* assignment, "None" after `timeline = None`, and "cached" or "built" once
\* they hold a replay; run.pc is the position in main.
MainRest == <<first_run, resampled_one, cache_call, web, win, pipeVars>>

\* Lines 81-89: cached = None; without --refresh the cache is tried and
\* session, info, timeline and frames are set to None.
TryCache ==
    /\ run.pc = "start"
    /\ IF run.refresh
       THEN /\ run' = [run EXCEPT !.pc = "miss", !.cached = NoCache]
            /\ UNCHANGED loaded
       ELSE LET c == LoadResult(files, run.key.year, run.key.round, run.key.session,
                                run.key.fps)
            IN  /\ loaded' = c
                /\ run' = [run EXCEPT !.pc = IF c # NoCache THEN "hit" ELSE "miss",
                                      !.cached = c, !.timeline = "None",
                                      !.frames = "None"]
    /\ UNCHANGED <<files, MainRest>>

\* Lines 91-107: cache hit; timeline and frames come from the cache, the
\* session is loaded and its telemetry extracted.
UseCache ==
    /\ run.pc = "hit"
    /\ run' = [run EXCEPT !.pc = IF run.ai THEN "hit_ai" ELSE "window",
                          !.timeline = "cached", !.frames = "cached"]
    /\ UNCHANGED <<files, loaded, MainRest>>

\* Lines 246-262: cache miss or --refresh; the session is loaded and its
\* telemetry extracted.
LoadSession ==
    /\ run.pc = "miss"
    /\ run' = [run EXCEPT !.pc = IF run.ai THEN "miss_ai" ELSE "compute"]
    /\ UNCHANGED <<files, loaded, MainRest>>

\* Lines 132-244 and 265-335: `if args.ai`; the AI lap is generated from a
\* driver or from the fastest lap and may be empty; when it is not, it is
\* resampled onto timeline (timeline[0] is read) and added to every frame of
\* frames.  Reading a name that holds no replay raises (TypeError for None,
\* UnboundLocalError for an unbound local).
AugmentWithAi ==
    /\ run.pc \in {"hit_ai", "miss_ai"}
    /\ \E ai_telemetry \in BOOLEAN :
          IF ~ai_telemetry
          THEN run' = [run EXCEPT !.pc = IF run.pc = "hit_ai" THEN "window" ELSE "compute"]
          ELSE IF run.timeline \in {"None", "unbound"}
          THEN run' = [run EXCEPT !.pc = "crash",
                                  !.ai_read = [timeline |-> run.timeline,
                                               frames |-> "not reached"]]
          ELSE run' = [run EXCEPT !.pc = IF run.pc = "hit_ai" THEN "window" ELSE "compute",
                                  !.ai_read = [timeline |-> run.timeline,
                                               frames |-> run.frames],
                                  !.frames = "augmented"]
    /\ UNCHANGED <<files, loaded, MainRest>>

\* Lines 337-396: build_global_timeline, resample_all_drivers, build_frames,
\* save_replay_cache.
ComputeReplay ==
    /\ run.pc = "compute"
    /\ run' = [run EXCEPT !.pc = "window", !.timeline = "built", !.frames = "built"]
    /\ \E r \in Replays :
          LET path == _cache_file_path(run.key.year, run.key.round, run.key.session,
                                       run.key.fps)
          IN  files' = [f \in (DOMAIN files) \cup {path} |->
                           IF f = path THEN PickleDump(r.meta, r.timeline, r.frames)
                           ELSE files[f]]
    /\ UNCHANGED <<loaded, MainRest>>

\* Lines 398-429: the window is built from frames and run.
OpenWindow ==
    /\ run.pc = "window"
    /\ run' = [run EXCEPT !.pc = "running"]
    /\ UNCHANGED <<files, loaded, MainRest>>

\* ---------------------------------------------------------- specifications
\* extract_driver_telemetry is not part of the run.
NoSession == session = <<>> /\ stitch_i = 0

\* Nothing has run in the process before.
CacheIdle == files = <<>> /\ cache_call = [op |-> "none"] /\ loaded = <<>>

\* export_for_web is not called, no window is open, main is not modelled.
WebIdle == web = [pc |-> "idle"]

WinIdle == win = [pc |-> "idle"]

RunIdle == run = [pc |-> "idle"]

AppIdle ==
    first_run = <<>> /\ resampled_one = <<>> /\ CacheIdle /\ WebIdle /\ WinIdle /\ RunIdle

\* No pipeline is running.
NoPipeline ==
    /\ pc = "idle"
    /\ fps = 1
    /\ lap_length = 0
    /\ all_driver_tel = <<>>
    /\ timeline = <<>>
    /\ t0 = 0
    /\ t1 = 0
    /\ resampled = <<>>
    /\ frames = <<>>
    /\ prev_positions = <<>>
    /\ session = <<>>
    /\ stitch_i = 0
    /\ tyre_map = <<>>
    /\ sector_data = NoSectorData
    /\ pit_data = <<>>
    /\ race_control = <<>>
    /\ fastest_lap_events = <<>>

\* build_frames is called without tyre_map, sector_data, pit_data and
\* race_control.
NoSideInputs ==
    /\ tyre_map = <<>>
    /\ sector_data = NoSectorData
    /\ pit_data = <<>>
    /\ race_control = <<>>
    /\ fastest_lap_events = <<>>

PipelineKinds == {K1, K2}

FrameKinds == {K1, K2, K3}

LapLengthValues == {-100, 0, 100}

\* main on a cache miss: the stitched telemetry of two vehicles, a frame rate
\* and the lap length estimate of the session.
Init ==
    /\ AppIdle
    /\ pc = "timeline"
    /\ fps \in FpsValues
    /\ lap_length = 100 * Scale
    /\ all_driver_tel \in [{"A", "B"} -> Series(0..MaxTime, PipelineKinds, MaxLen)]
    /\ timeline = <<>>
    /\ t0 = 0
    /\ t1 = 0
    /\ resampled = <<>>
    /\ frames = <<>>
    /\ prev_positions = <<>>
    /\ NoSession
    /\ NoSideInputs

Next ==
    BuildGlobalTimeline \/ ResampleAllDrivers \/ BeginFrames \/ BuildFrame \/ ReturnFrames

Spec == Init /\ [][Next]_vars

\* The same process runs build_global_timeline, resample_all_drivers and
\* build_frames a second time on the same telemetry and frame rate, keeping
\* what the first run returned.
RunAgain ==
    /\ pc = "done"
    /\ first_run = <<>>
    /\ first_run' = [timeline |-> timeline, frames |-> frames]
    /\ pc' = "timeline"
    /\ UNCHANGED <<resampled_one, cacheVars, web, win, run, fps, lap_length, all_driver_tel, timeline,
                   t0, t1, resampled, frames, prev_positions, stitchVars, sideVars,
                   fastest_lap_events>>

SpecTwice == Init /\ [][Next \/ RunAgain]_vars

\* build_global_timeline alone, on any dict of time arrays: vehicles without
\* a "time" key and non-finite timestamps included.
TimelineTels ==
    LET S == Series({NegInf} \cup (0..MaxTime) \cup {PosInf, NaN}, {K1}, MaxLen)
    IN  S \cup {WithoutTime(tel) : tel \in S}

InitTimeline ==
    /\ AppIdle
    /\ pc = "timeline"
    /\ fps \in FpsValues
    /\ lap_length = 100 * Scale
    /\ all_driver_tel \in [{"A", "B"} -> TimelineTels]
    /\ timeline = <<>>
    /\ t0 = 0
    /\ t1 = 0
    /\ resampled = <<>>
    /\ frames = <<>>
    /\ prev_positions = <<>>
    /\ NoSession
    /\ NoSideInputs

SpecTimeline == InitTimeline /\ [][BuildGlobalTimeline]_vars

\* resample_all_drivers alone, on one vehicle and any query times.
InitResample ==
    /\ AppIdle
    /\ pc = "resample"
    /\ fps \in FpsValues
    /\ lap_length = 100 * Scale
    /\ all_driver_tel \in [{"A"} -> Series(0..MaxSrcTime, FrameKinds, MaxSrcLen)]
    /\ timeline \in [1..1 -> 0..(MaxSrcTime + 1)]
    /\ t0 \in {-1, 0}
    /\ t1 = 0
    /\ resampled = <<>>
    /\ frames = <<>>
    /\ prev_positions = <<>>
    /\ NoSession
    /\ NoSideInputs

SpecResample == InitResample /\ [][ResampleAllDrivers]_vars

\* Both resamplers on the same vehicle, timeline and t0.
SpecResampleDriver == InitResample /\ [][ResampleAllDrivers \/ ResampleDriver]_vars

\* build_frames alone, on any resampled arrays of up to three vehicles.
FrameSeries(ks, tl) ==
    [c \in DOMAIN MakeTel(tl, ks) \cup {"time_abs"} |->
        IF c = "time_abs" THEN tl ELSE MakeTel(tl, ks)[c]]

FrameTimeline == [k \in 1..MaxFrames |-> (k - 1) * Dt(1)]

InitFrames ==
    /\ AppIdle
    /\ pc = "build_frames"
    /\ fps = 1
    /\ lap_length \in {l * Scale : l \in LapLengthValues}
    /\ all_driver_tel = <<>>
    /\ timeline = FrameTimeline
    /\ t0 = 0
    /\ t1 = 0
    /\ resampled \in UNION {[D -> {FrameSeries(ks, FrameTimeline) :
                                       ks \in [1..MaxFrames -> FrameKinds]}] :
                              D \in SUBSET Drivers}
    /\ frames = <<>>
    /\ prev_positions = <<>>
    /\ NoSession
    /\ NoSideInputs

SpecFrames == InitFrames /\ [][BeginFrames \/ BuildFrame \/ ReturnFrames]_vars

\* extract_driver_telemetry alone, on a session of two vehicles, one of them
\* (the first or the second) with up to MaxLaps laps and the other with at
\* most one.  The telemetry of a lap is empty, or has one or two rows; laps
\* may overlap or come out of time order.  A lap is read without an
\* exception, or raises before anything is appended, or raises at the
\* throttle channel.
LapTimes == {<<0>>, <<1>>, <<0, 1>>}

LapOptions ==
    {[times |-> <<>>, fails |-> "none"],
     [times |-> <<0>>, fails |-> "time"],
     [times |-> <<0>>, fails |-> "throttle"]}
        \cup {[times |-> ts, fails |-> "none"] : ts \in LapTimes}

InitStitch ==
    /\ AppIdle
    /\ pc = "stitch"
    /\ fps = 1
    /\ lap_length = 100 * Scale
    /\ all_driver_tel = <<>>
    /\ timeline = <<>>
    /\ t0 = 0
    /\ t1 = 0
    /\ resampled = <<>>
    /\ frames = <<>>
    /\ prev_positions = <<>>
    /\ session \in {ss \in [{"A", "B"} -> UNION {[1..n -> LapOptions] : n \in 0..MaxLaps}] :
                       \E d \in {"A", "B"} : Len(ss[d]) <= 1}
    /\ stitch_i = 0
    /\ NoSideInputs

SpecStitch == InitStitch /\ [][ExtractDriver \/ ReturnTelemetry]_vars

\* build_frames alone with a sector table: one vehicle on the track, the laps
\* of two vehicles in the table.  A lap has a lap time or none, and a
\* completion time (one tick, one second or two seconds) or none.
LapTimeValues == {NoneNumber, 88, 90}

CompletionTimes == {NoneNumber, 1, TicksPerSec, 2 * TicksPerSec}

\* driver_sectors[driver][lap] as extract_sector_times fills it
SectorRec(lapTime, s3Time) ==
    [s1 |-> 30, s2 |-> 30, s3 |-> IF lapTime = NoneNumber THEN NoneNumber ELSE lapTime - 60,
     s1_time |-> NoneNumber, s2_time |-> NoneNumber, s3_time |-> s3Time,
     lap_time |-> lapTime, is_pb |-> FALSE]

SectorRecs == {SectorRec(lt, st) : lt \in LapTimeValues, st \in CompletionTimes}

\* The dicts keyed by some of the lap numbers in laps, with values in recs.
LapTables(laps, recs) == UNION {[L -> recs] : L \in SUBSET laps}

\* The rows of the sector table of the first n vehicles, in dict order.
RECURSIVE SectorRows(_, _)
SectorRows(driver_sectors, n) ==
    IF n = 0 THEN <<>>
    ELSE LET d == Keys(driver_sectors)[n]
         IN  SectorRows(driver_sectors, n - 1)
                 \o [k \in 1..Len(LapKeys(driver_sectors[d])) |->
                        [driver |-> d, lap_num |-> LapKeys(driver_sectors[d])[k],
                         rec |-> driver_sectors[d][LapKeys(driver_sectors[d])[k]]]]

\* overall_bests as extract_sector_times accumulates it over the rows: the
\* least value of each sector and lap time, and the first lap that has the
\* least lap time.
OverallBests(driver_sectors) ==
    LET rows    == SectorRows(driver_sectors, Len(Keys(driver_sectors)))
        Vals(f) == {rows[k].rec[f] : k \in 1..Len(rows)} \ {NoneNumber}
        Best(f) == IF Vals(f) = {} THEN NoneNumber ELSE SetMin(Vals(f))
        first   == IF Vals("lap_time") = {} THEN 0
                   ELSE SetMin({k \in 1..Len(rows) : rows[k].rec.lap_time = Best("lap_time")})
    IN  [s1 |-> Best("s1"), s2 |-> Best("s2"), s3 |-> Best("s3"), lap |-> Best("lap_time"),
         fastest_driver  |-> IF first = 0 THEN "None" ELSE rows[first].driver,
         fastest_lap_num |-> IF first = 0 THEN NoneNumber ELSE rows[first].lap_num]

\* sector_data as extract_sector_times returns it
SectorData(driver_sectors) ==
    [driver_sectors |-> driver_sectors, overall_bests |-> OverallBests(driver_sectors)]

LapTimeline == [k \in 1..MaxLapFrames |-> (k - 1) * Dt(1)]

InitFastestLap ==
    /\ AppIdle
    /\ pc = "build_frames"
    /\ fps = 1
    /\ lap_length = 100 * Scale
    /\ all_driver_tel = <<>>
    /\ timeline = LapTimeline
    /\ t0 = 0
    /\ t1 = 0
    /\ resampled = [d \in {"A"} |-> FrameSeries([k \in 1..MaxLapFrames |-> K1], LapTimeline)]
    /\ frames = <<>>
    /\ prev_positions = <<>>
    /\ NoSession
    /\ tyre_map = <<>>
    /\ \E a \in LapTables({1, 2}, SectorRecs), b \in LapTables({1}, SectorRecs) :
          sector_data = SectorData([d \in {"A", "B"} |-> IF d = "A" THEN a ELSE b])
    /\ pit_data = <<>>
    /\ race_control = <<>>
    /\ fastest_lap_events = <<>>

SpecFastestLap == InitFastestLap /\ [][BeginFrames \/ BuildFrame \/ ReturnFrames]_vars

\* build_frames alone on two vehicles, for lap lengths of either sign; a
\* vehicle may be on a later lap than another and further along the lap.
LapLengthKinds == {K1, K2, K3, K4}

InitLapLength ==
    /\ AppIdle
    /\ pc = "build_frames"
    /\ fps = 1
    /\ lap_length \in {l * Scale : l \in LapLengthValues}
    /\ all_driver_tel = <<>>
    /\ timeline = FrameTimeline
    /\ t0 = 0
    /\ t1 = 0
    /\ resampled \in [{"A", "B"} -> {FrameSeries(ks, FrameTimeline) :
                                        ks \in [1..MaxFrames -> LapLengthKinds]}]
    /\ frames = <<>>
    /\ prev_positions = <<>>
    /\ NoSession
    /\ NoSideInputs

SpecLapLength == InitLapLength /\ [][BeginFrames \/ BuildFrame \/ ReturnFrames]_vars

\* build_frames alone with the per-lap tables.  Vehicle B is in no table;
\* vehicle A is in a table or not, with an entry for lap 1, lap 2, both or
\* none, and with stint lists as extract_pit_stops builds them.
StintRec(n, first, last) ==
    [stint |-> n, compound |-> "SOFT", start_lap |-> first, end_lap |-> last,
     tyre_life |-> last - first + 1]

StintLists ==
    {<<>>,
     <<StintRec(1, 1, 1)>>,
     <<StintRec(1, 1, 2)>>,
     <<StintRec(2, 2, 2)>>,
     <<StintRec(1, 1, 1), StintRec(2, 2, 2)>>,
     <<StintRec(1, 1, 1), StintRec(2, 3, 3)>>}

\* The dicts with vehicle A as only key, values in vals, and the empty dict.
TablesOfA(vals) == {<<>>} \cup [{"A"} -> vals]

ContextKinds == {K1, K2, K3}

InitContext ==
    /\ AppIdle
    /\ pc = "build_frames"
    /\ fps = 1
    /\ lap_length = 100 * Scale
    /\ all_driver_tel = <<>>
    /\ timeline = FrameTimeline
    /\ t0 = 0
    /\ t1 = 0
    /\ \E ks \in [1..MaxFrames -> ContextKinds] :
          resampled = [d \in {"A", "B"} |->
                          FrameSeries(IF d = "A" THEN ks ELSE [k \in 1..MaxFrames |-> K1],
                                      FrameTimeline)]
    /\ frames = <<>>
    /\ prev_positions = <<>>
    /\ NoSession
    /\ tyre_map \in TablesOfA(LapTables({1, 2}, {"SOFT"}))
    /\ \E ds \in TablesOfA(LapTables({1, 2}, {SectorRec(90, TicksPerSec)})) :
          sector_data = SectorData(ds)
    /\ pit_data \in TablesOfA(StintLists)
    /\ race_control = <<>>
    /\ fastest_lap_events = <<>>

SpecContext == InitContext /\ [][BeginFrames \/ BuildFrame \/ ReturnFrames]_vars

\* extract_pit_stops, "Track stint info": one row of session.laps either opens
\* a stint (its Stint number exceeds the number of stints listed so far) or
\* moves the end_lap and tyre_life of the stint at index Stint - 1.
TrackStint(driver_stints, row) ==
    IF row.Stint > Len(driver_stints)
    THEN Append(driver_stints,
                [stint |-> row.Stint, compound |-> row.Compound,
                 start_lap |-> row.LapNumber, end_lap |-> row.LapNumber,
                 tyre_life |-> row.TyreLife])
    ELSE [driver_stints EXCEPT ![row.Stint] =
             [@ EXCEPT !.end_lap = row.LapNumber, !.tyre_life = row.TyreLife]]

RECURSIVE StintsFromRows(_, _)
\* driver_stints[driver] after the first n rows of the vehicle
StintsFromRows(rows, n) ==
    IF n = 0 THEN <<>> ELSE TrackStint(StintsFromRows(rows, n - 1), rows[n])

\* The rows of one vehicle in session.laps: lap numbers increase (a lap may
\* be missing), the stint number starts at 1 and stays or grows by one from
\* row to row.
LapNumbers == 1..(MaxLaps + 2)

StintRows ==
    UNION {{rows \in [1..n -> [LapNumber : LapNumbers, Stint : 1..3,
                                TyreLife : {1}, Compound : {"SOFT"}]] :
                /\ rows[1].Stint = 1
                /\ \A k \in 2..n :
                      /\ rows[k - 1].LapNumber < rows[k].LapNumber
                      /\ rows[k].Stint \in {rows[k - 1].Stint, rows[k - 1].Stint + 1}} :
           n \in 1..3}

StintKinds == {K1, K2, K5}

\* build_frames with the stint table extract_pit_stops builds for vehicle A.
InitStints ==
    /\ AppIdle
    /\ pc = "build_frames"
    /\ fps = 1
    /\ lap_length = 100 * Scale
    /\ all_driver_tel = <<>>
    /\ timeline = FrameTimeline
    /\ t0 = 0
    /\ t1 = 0
    /\ \E ks \in [1..MaxFrames -> StintKinds] :
          resampled = [d \in {"A"} |-> FrameSeries(ks, FrameTimeline)]
    /\ frames = <<>>
    /\ prev_positions = <<>>
    /\ NoSession
    /\ tyre_map = <<>>
    /\ sector_data = NoSectorData
    /\ \E rows \in StintRows : pit_data = [d \in {"A"} |-> StintsFromRows(rows, Len(rows))]
    /\ race_control = <<>>
    /\ fastest_lap_events = <<>>

SpecStints == InitStints /\ [][BeginFrames \/ BuildFrame \/ ReturnFrames]_vars

\* build_frames alone with a track status log: up to three entries sorted by
\* time, as extract_race_control_messages returns them.
TrackStatuses == {"GREEN", "YELLOW", "RED"}

StatusTimes == 0..(2 * TicksPerSec - 1)

TrackStatusLogs ==
    UNION {{[k \in 1..n |-> [time |-> ts[k], status |-> st[k]]] :
               ts \in SortedSeqs(StatusTimes, n), st \in [1..n -> TrackStatuses]} :
           n \in 0..3}

InitTrackStatus ==
    /\ AppIdle
    /\ pc = "build_frames"
    /\ fps = 1
    /\ lap_length = 100 * Scale
    /\ all_driver_tel = <<>>
    /\ timeline = FrameTimeline
    /\ t0 = 0
    /\ t1 = 0
    /\ resampled = [d \in {"A"} |-> FrameSeries([k \in 1..MaxFrames |-> K1], FrameTimeline)]
    /\ frames = <<>>
    /\ prev_positions = <<>>
    /\ NoSession
    /\ tyre_map = <<>>
    /\ sector_data = NoSectorData
    /\ pit_data = <<>>
    /\ race_control \in TrackStatusLogs
    /\ fastest_lap_events = <<>>

SpecTrackStatus == InitTrackStatus /\ [][BeginFrames \/ BuildFrame \/ ReturnFrames]_vars

\* The replay cache alone: saves and loads in any order, from an empty
\* computed_data directory.
InitCache == AppIdle /\ NoPipeline

SpecCache == InitCache /\ [][SaveReplayCache \/ LoadReplayCache]_vars

\* export_for_web alone, on 1, 1000 or 1002 frames.
InitWeb ==
    /\ first_run = <<>> /\ resampled_one = <<>> /\ CacheIdle /\ WinIdle /\ RunIdle
    /\ NoPipeline
    /\ \E n \in FrameCounts : \E p \in WebPatterns :
          web = [pc |-> "chunks", n_frames |-> n, pattern |-> p, chunk_idx |-> 0, i |-> 0,
                 chunk_frames |-> <<>>, prev_compact |-> NoneDict, chunks |-> <<>>,
                 manifest |-> <<>>]

SpecWeb == InitWeb /\ [][BeginChunk \/ CompactFrame \/ WriteChunk \/ WriteManifest]_vars

\* F1ReplayWindow after __init__, on 1, 3 or MaxWinFrames frames.
WinFrameCounts == {1, 3, MaxWinFrames}

InitWindow ==
    /\ first_run = <<>> /\ resampled_one = <<>> /\ CacheIdle /\ WebIdle /\ RunIdle
    /\ NoPipeline
    /\ \E n \in WinFrameCounts : \E f \in FpsValues :
          win = [pc |-> "open", n_frames |-> n, fps |-> f, frame_idx |-> 0,
                 paused |-> FALSE, speed_i |-> 1, show_progress_bar |-> TRUE,
                 has_rect |-> FALSE, event |-> "init"]

SpecWindow ==
    InitWindow /\ [][on_update \/ on_draw \/ on_mouse_press \/ on_key_press]_vars

\* main from its argument parsing on: --refresh, --ai and --ai-driver given or
\* not, two requests, and a computed_data directory that is empty or holds
\* the replay of the first request.
MainKeys ==
    {[year |-> 2023, round |-> 1, session |-> <<"Q">>, fps |-> 25],
     [year |-> 2023, round |-> 1, session |-> <<"Q">>, fps |-> 5]}

AiDrivers == {"None", "VER"}

InitMain ==
    /\ first_run = <<>> /\ resampled_one = <<>> /\ WebIdle /\ WinIdle
    /\ NoPipeline
    /\ cache_call = [op |-> "none"]
    /\ loaded = <<>>
    /\ files \in {<<>>} \cup
                 {[f \in {_cache_file_path(2023, 1, <<"Q">>, 25)} |->
                      PickleDump(r.meta, r.timeline, r.frames)] : r \in Replays}
    /\ \E k \in MainKeys : \E refresh, ai \in BOOLEAN : \E drv \in AiDrivers :
          run = [pc |-> "start", key |-> k, refresh |-> refresh, ai |-> ai,
                 ai_driver |-> drv, cached |-> NoCache, timeline |-> "unbound",
                 frames |-> "unbound", ai_read |-> <<>>]

SpecMain ==
    InitMain /\ [][TryCache \/ UseCache \/ LoadSession \/ AugmentWithAi
                     \/ ComputeReplay \/ OpenWindow]_vars

\* ================================================================= claims
\* The vehicles of frame k and their states.
FrameDrivers(k) == DOMAIN frames[k].drivers

PosIn(k, d) == frames[k].drivers[d].pos

\* progress as the specification defines it, from the resampled input of
\* build_frames: (max(lap, 1) - 1) * lap_length + (distance mod lap_length)
SpecProgress(d, k) ==
    (Max(resampled[d].lap[k], 1) - 1) * lap_length + (resampled[d].distance[k] % lap_length)

\* d is listed before e in the vehicle list of build_frames
ListedBefore(d, e) ==
    \E j, k \in 1..Len(Keys(resampled)) :
        j < k /\ Keys(resampled)[j] = d /\ Keys(resampled)[k] = e

\* C1: in every frame built by build_frames the ranks (pos) of the vehicles are
\* a permutation of 1..N, N the number of vehicles of the frame: no rank
\* twice, no rank missing.
C1_RanksArePermutation ==
    \A k \in 1..Len(frames) :
        /\ {PosIn(k, d) : d \in FrameDrivers(k)} = 1..Cardinality(FrameDrivers(k))
        /\ \A d, e \in FrameDrivers(k) : d # e => PosIn(k, d) # PosIn(k, e)

\* A frame of three vehicles, two of them with equal progress.
C1_Witness ==
    \E k \in 1..Len(frames) :
        /\ Cardinality(FrameDrivers(k)) = 3
        /\ \E d, e \in FrameDrivers(k) :
              d # e /\ frames[k].drivers[d].progress = frames[k].drivers[e].progress

\* C2: with lap_length > 0, in every frame a vehicle with greater progress
\* (max(lap,1)-1)*lap_length + distance mod lap_length has the better
\* (smaller) rank, so a later lap outranks an earlier one whatever the
\* distances within the lap.
C2_GreaterProgressRanksAhead ==
    lap_length > 0 =>
        \A k \in 1..Len(frames) : \A a, b \in FrameDrivers(k) :
            SpecProgress(a, k) > SpecProgress(b, k) => PosIn(k, a) < PosIn(k, b)

\* lap_length = 100, A on lap 2 at distance 10, B on lap 1 at distance 90:
\* A is ranked ahead of B.
C2_Witness ==
    /\ lap_length = 100 * Scale
    /\ \E k \in 1..Len(frames) :
          /\ {"A", "B"} \subseteq FrameDrivers(k)
          /\ resampled["A"].lap[k] = 2 /\ resampled["A"].distance[k] = 10 * Scale
          /\ resampled["B"].lap[k] = 1 /\ resampled["B"].distance[k] = 90 * Scale
          /\ PosIn(k, "A") < PosIn(k, "B")

\* The raw series of one vehicle as C3 supposes it: the lap number never
\* decreases in time, the distance never decreases within a lap.
RawMonotone(tel) ==
    \A j, k \in 1..Len(tel.time) :
        j < k => /\ tel.lap[j] <= tel.lap[k]
                 /\ (tel.lap[j] = tel.lap[k] => tel.distance[j] <= tel.distance[k])

\* C3: for raw telemetry whose lap number never decreases and whose distance
\* never decreases within a lap, the progress of every vehicle over the
\* frames built from the resampled series never decreases from one frame to
\* the next, lap boundaries included.
C3_ProgressNonDecreasing ==
    \A d \in DOMAIN all_driver_tel :
        RawMonotone(all_driver_tel[d]) =>
            \A k \in 1..(Len(frames) - 1) :
                d \in FrameDrivers(k) =>
                    frames[k].drivers[d].progress <= frames[k + 1].drivers[d].progress

\* C4 as stated: two vehicles with exactly equal progress in frame k > 1 are
\* ranked in the same relative order as in frame k - 1.
C4_TiesKeepPreviousOrder ==
    \A k \in 2..Len(frames) : \A d, e \in FrameDrivers(k) :
        (d # e /\ frames[k].drivers[d].progress = frames[k].drivers[e].progress)
            => ((PosIn(k, d) < PosIn(k, e)) <=> (PosIn(k - 1, d) < PosIn(k - 1, e)))

\* C4 as amended: two vehicles with exactly equal progress in a frame are
\* ranked in the order of the vehicle list, whatever the previous frame's
\* order was.
C4_TiesKeepListOrder ==
    \A k \in 1..Len(frames) : \A d, e \in FrameDrivers(k) :
        (d # e /\ frames[k].drivers[d].progress = frames[k].drivers[e].progress)
            => ((PosIn(k, d) < PosIn(k, e)) <=> ListedBefore(d, e))

\* Two vehicles tie in frame k > 1; the one listed first was behind in frame
\* k - 1 and is ahead in frame k.
C4_Witness ==
    \E k \in 2..Len(frames) : \E d, e \in FrameDrivers(k) :
        /\ ListedBefore(d, e)
        /\ frames[k].drivers[d].progress = frames[k].drivers[e].progress
        /\ PosIn(k - 1, e) < PosIn(k - 1, d)
        /\ PosIn(k, d) < PosIn(k, e)

\* The raw values of channel c of vehicle d.
RawValues(d, c) == {all_driver_tel[d][c][j] : j \in 1..Len(all_driver_tel[d].time)}

\* The query time of timeline index k in session time.
QueryTime(k) == timeline[k] + t0

\* C5: every continuous channel returned by resample_all_drivers lies, at
\* every timeline index, between the minimum and the maximum of the vehicle's
\* own raw samples of the channel; before the first raw timestamp it is the
\* first sample's value, after the last raw timestamp the last sample's.
C5_ContinuousWithinRawRange ==
    \A d \in DOMAIN resampled : \A c \in ContinuousChannels :
        \A k \in 1..Len(timeline) :
            LET raw == all_driver_tel[d]
                n   == Len(raw.time)
                v   == resampled[d][c][k]
            IN  /\ \E lo, hi \in RawValues(d, c) : lo <= v /\ v <= hi
                /\ QueryTime(k) < raw.time[1] => v = raw[c][1]
                /\ QueryTime(k) > raw.time[n] => v = raw[c][n]

\* A query before the first raw timestamp of a vehicle whose first and last
\* raw distance differ: the resampled distance is the first sample's.
C5_Witness ==
    \E d \in DOMAIN resampled : \E k \in 1..Len(timeline) :
        LET raw == all_driver_tel[d]
        IN  /\ QueryTime(k) < raw.time[1]
            /\ raw.distance[1] # raw.distance[Len(raw.time)]
            /\ resampled[d].distance[k] = raw.distance[1]

\* The index of the raw sample the step function holds at time t: the last
\* sample whose timestamp is <= t, the first sample when there is none.
HeldIndex(ts, t) ==
    IF \E j \in 1..Len(ts) : ts[j] <= t
    THEN CHOOSE j \in 1..Len(ts) :
            /\ ts[j] <= t
            /\ \A m \in 1..Len(ts) : ts[m] <= t => m <= j
    ELSE 1

\* C6: on a raw series with non-decreasing timestamps the stepwise resampler
\* returns at query time t the value of the sample with the greatest raw
\* timestamp <= t (the last such sample when timestamps repeat), and the
\* first sample's value when t precedes every raw timestamp.
C6_StepwiseHoldsLastSample ==
    \A d \in DOMAIN resampled : \A c \in DiscreteChannels :
        \A k \in 1..Len(timeline) :
            resampled[d][c][k]
                = all_driver_tel[d][c][HeldIndex(all_driver_tel[d].time, QueryTime(k))]

\* gear = [3, 4, 5] at time = [0, 1, 2] s, queried at t = 0.5 s: gear 3.
C6_Witness ==
    /\ "A" \in DOMAIN resampled
    /\ all_driver_tel["A"].time = <<0, TicksPerSec, 2 * TicksPerSec>>
    /\ all_driver_tel["A"].gear = <<3, 4, 5>>
    /\ Len(timeline) = 1
    /\ 2 * QueryTime(1) = TicksPerSec
    /\ resampled["A"].gear = <<3>>

\* C7: the gear, drs and lap values returned by resample_all_drivers are, at
\* every timeline index, members of the vehicle's raw samples of the same
\* channel.
C7_DiscreteValuesAreRawValues ==
    \A d \in DOMAIN resampled : \A c \in DiscreteChannels :
        \A k \in 1..Len(timeline) : resampled[d][c][k] \in RawValues(d, c)

\* A query strictly between two raw samples with different gears.
C7_Witness ==
    \E d \in DOMAIN resampled : \E k \in 1..Len(timeline) :
        \E j \in 1..(Len(all_driver_tel[d].time) - 1) :
            /\ all_driver_tel[d].time[j] < QueryTime(k)
            /\ QueryTime(k) < all_driver_tel[d].time[j + 1]
            /\ all_driver_tel[d].gear[j] # all_driver_tel[d].gear[j + 1]
            /\ resampled[d].gear[k] = all_driver_tel[d].gear[j]

\* A vehicle with a usable time range: at least 2 samples, first and last
\* timestamp finite, end > start.
HasUsableRange(tel) ==
    /\ "time" \in DOMAIN tel
    /\ Len(tel.time) >= 2
    /\ tel.time[1] \notin {NegInf, PosInf, NaN}
    /\ tel.time[Len(tel.time)] \notin {NegInf, PosInf, NaN}
    /\ tel.time[1] < tel.time[Len(tel.time)]

UsableVehicles == {d \in DOMAIN all_driver_tel : HasUsableRange(all_driver_tel[d])}

LastTime(d) == all_driver_tel[d].time[Len(all_driver_tel[d].time)]

\* build_global_timeline has returned.
TimelineReturned == pc = "resample"

\* C8 as stated: the returned timeline is i * (1/fps) for
\* i = 0 .. floor((t1 - t0) * fps), and its last timestamp does not exceed
\* the duration t1 - t0.
C8_TimelineUpToFloor ==
    TimelineReturned =>
        /\ timeline = [k \in 1..(((t1 - t0) \div Dt(fps)) + 1) |-> (k - 1) * Dt(fps)]
        /\ timeline[Len(timeline)] <= t1 - t0

\* C8 as amended: the returned timeline is i * (1/fps) for
\* i = 0 .. ceil((t1 - t0) * fps): the step is constant, there is at least
\* one element, the first is 0, and the last timestamp is at least the
\* duration t1 - t0 and less than the duration plus one step.
C8_TimelineUpToCeil ==
    TimelineReturned =>
        /\ timeline = [k \in 1..(CeilDiv(t1 - t0, Dt(fps)) + 1) |-> (k - 1) * Dt(fps)]
        /\ \A k \in 1..(Len(timeline) - 1) : timeline[k + 1] - timeline[k] = Dt(fps)
        /\ Len(timeline) >= 1
        /\ timeline[1] = 0
        /\ timeline[Len(timeline)] >= t1 - t0
        /\ timeline[Len(timeline)] < (t1 - t0) + Dt(fps)

\* A duration that is no multiple of the step: the last timestamp lies after
\* the end of the window.
C8_Witness ==
    /\ TimelineReturned
    /\ (t1 - t0) % Dt(fps) # 0
    /\ timeline[Len(timeline)] > t1 - t0

\* C9: build_global_timeline returns t0 = the least first timestamp and
\* t1 = the greatest last timestamp of exactly the vehicles with a usable
\* range; the other vehicles have no influence on t0 and t1.
C9_UnionWindowOfUsableVehicles ==
    TimelineReturned =>
        /\ \E d \in UsableVehicles : all_driver_tel[d].time[1] = t0
        /\ \A d \in UsableVehicles : t0 <= all_driver_tel[d].time[1]
        /\ \E d \in UsableVehicles : LastTime(d) = t1
        /\ \A d \in UsableVehicles : LastTime(d) <= t1

\* Two usable vehicles with different starts and different ends.
C9_Witness ==
    /\ TimelineReturned
    /\ \E d, e \in UsableVehicles :
          /\ all_driver_tel[d].time[1] < all_driver_tel[e].time[1]
          /\ LastTime(d) < LastTime(e)
          /\ t0 = all_driver_tel[d].time[1]
          /\ t1 = LastTime(e)

\* C10: build_global_timeline fails with an error, returning no timeline,
\* exactly when no vehicle has a usable range; with a usable vehicle it
\* returns a timeline.
C10_ErrorIffNoUsableVehicle ==
    pc # "timeline" =>
        /\ (pc = "error") <=> (UsableVehicles = {})
        /\ (pc = "resample") <=> (UsableVehicles # {})
        /\ (pc = "resample") => Len(timeline) >= 1
        /\ (pc = "error") => timeline = <<>>

\* The error is raised although a vehicle has two samples: its range is
\* empty or not finite.
C10_Witness ==
    /\ pc = "error"
    /\ \E d \in DOMAIN all_driver_tel :
          "time" \in DOMAIN all_driver_tel[d] /\ Len(all_driver_tel[d].time) >= 2

\* ------------------------------------------------ extract_driver_telemetry
\* The laps of vehicle d that are read whole: telemetry not empty, no exception.
ValidLaps(d) ==
    {n \in 1..Len(session[d]) : Len(session[d][n].times) > 0 /\ session[d][n].fails = "none"}

\* The original samples of vehicle d, each named by its lap and its row.
SampleIds(d) ==
    UNION {{<<n, r>> : r \in 1..Len(session[d][n].times)} : n \in ValidLaps(d)}

\* The channel values of the original sample id of vehicle d.
OriginalSample(d, id) ==
    [c \in DOMAIN K1 \cup {"time"} |-> LapArray(session[d][id[1]], id[1], c)[id[2]]]

\* The channel values stored at index k of vehicle d.
StoredSample(d, k) == [c \in DOMAIN all_driver_tel[d] |-> all_driver_tel[d][c][k]]

\* C11: for every vehicle stored by extract_driver_telemetry the time array is
\* non-decreasing, all channel arrays have the same length, and the stored
\* indices hold exactly the original samples of the vehicle's valid laps, each
\* as many times as it occurs there (one reordering applied to every channel).
C11_StitchedSortedAndAligned ==
    \A d \in DOMAIN all_driver_tel :
        LET tel == all_driver_tel[d]
            n   == Len(tel.time)
        IN  /\ \A k \in 1..(n - 1) : tel.time[k] <= tel.time[k + 1]
            /\ \A c \in DOMAIN tel : Len(tel[c]) = n
            /\ n = Cardinality(SampleIds(d))
            /\ \A id \in SampleIds(d) :
                  Cardinality({k \in 1..n : StoredSample(d, k) = OriginalSample(d, id)})
                      = Cardinality({j \in SampleIds(d) :
                                        OriginalSample(d, j) = OriginalSample(d, id)})

\* The function has returned a vehicle whose laps came out of time order: its
\* first stored sample is not the first sample of its first valid lap.
C11_Witness ==
    /\ pc = "stitched"
    /\ \E d \in DOMAIN all_driver_tel :
          /\ Cardinality(ValidLaps(d)) = 2
          /\ \E id \in SampleIds(d) :
                /\ id[1] = 2
                /\ StoredSample(d, 1) = OriginalSample(d, id)
                /\ OriginalSample(d, id).time < OriginalSample(d, <<1, 1>>).time

\* C13 as stated: when extract_driver_telemetry returns, a vehicle with fewer
\* than two samples after the concatenation of its valid laps (none, or
\* exactly one) is absent from the output, and every other vehicle is in it.
C13_FewerThanTwoAbsent ==
    pc = "stitched" =>
        \A d \in DOMAIN session :
            (d \in DOMAIN all_driver_tel) <=> (Cardinality(SampleIds(d)) >= 2)

\* C13 as amended: when extract_driver_telemetry returns, a vehicle without
\* any sample is absent from the output, and every other vehicle is in it,
\* a vehicle with exactly one sample included.
C13_OnlyEmptyAbsent ==
    pc = "stitched" =>
        \A d \in DOMAIN session :
            (d \in DOMAIN all_driver_tel) <=> (Cardinality(SampleIds(d)) >= 1)

\* The function has returned: a vehicle with exactly one sample is in the
\* output with arrays of length one, a vehicle with laps but no sample is not.
C13_Witness ==
    /\ pc = "stitched"
    /\ \E d, e \in DOMAIN session :
          /\ Cardinality(SampleIds(d)) = 1
          /\ d \in DOMAIN all_driver_tel
          /\ Len(all_driver_tel[d].time) = 1
          /\ Len(session[e]) > 0
          /\ SampleIds(e) = {}
          /\ e \notin DOMAIN all_driver_tel

\* ------------------------------------------------------- position changes
\* The vehicles named by the position_changes of frame k.
Gainers(k) ==
    {frames[k].position_changes[j].driver : j \in 1..Len(frames[k].position_changes)}

\* C14: the position_changes of frame k name vehicle d exactly when k is not
\* the first frame and the rank of d is smaller than in frame k - 1; the
\* entry (one per vehicle) carries the rank of frame k - 1 as from_pos and the
\* rank of frame k as to_pos.  The first frame has no entry.
C14_PositionChangesAgainstPreviousFrame ==
    \A k \in 1..Len(frames) :
        LET changes == frames[k].position_changes
        IN  /\ k = 1 => changes = <<>>
            /\ \A d \in FrameDrivers(k) :
                  (d \in Gainers(k)) <=> (k > 1 /\ PosIn(k, d) < PosIn(k - 1, d))
            /\ Gainers(k) \subseteq FrameDrivers(k)
            /\ \A i, j \in 1..Len(changes) : changes[i].driver = changes[j].driver => i = j
            /\ \A j \in 1..Len(changes) :
                  /\ changes[j].from_pos = PosIn(k - 1, changes[j].driver)
                  /\ changes[j].to_pos = PosIn(k, changes[j].driver)

\* A vehicle is second in one frame, first in the next and still first in
\* the one after: the middle frame reports the gain from 2 to 1, the last
\* frame reports nothing.
C14_Witness ==
    \E k \in 3..Len(frames) : \E d \in FrameDrivers(k) :
        /\ PosIn(k - 2, d) = 2 /\ PosIn(k - 1, d) = 1 /\ PosIn(k, d) = 1
        /\ Len(frames[k - 1].position_changes) = 1
        /\ frames[k - 1].position_changes[1].driver = d
        /\ frames[k - 1].position_changes[1].from_pos = 2
        /\ frames[k - 1].position_changes[1].to_pos = 1
        /\ frames[k].position_changes = <<>>

\* ------------------------------------------------------------- fastest lap
\* build_frames has computed its fastest-lap events.
EventsComputed == pc \in {"frames", "done"}

\* C15 as stated: the fastest-lap events have strictly increasing times and
\* strictly decreasing lap times, for any sector table, two laps completed at
\* the same time included.
C15_EventsStrictlyOrdered ==
    EventsComputed =>
        \A j \in 1..(Len(fastest_lap_events) - 1) :
            /\ fastest_lap_events[j].time < fastest_lap_events[j + 1].time
            /\ fastest_lap_events[j].lap_time > fastest_lap_events[j + 1].lap_time

\* C15 as amended: the fastest-lap events have non-decreasing times and
\* strictly decreasing lap times, for any sector table.
C15_EventsOrdered ==
    EventsComputed =>
        \A j \in 1..(Len(fastest_lap_events) - 1) :
            /\ fastest_lap_events[j].time <= fastest_lap_events[j + 1].time
            /\ fastest_lap_events[j].lap_time > fastest_lap_events[j + 1].lap_time

\* Two laps are completed at the same time and the one listed second is the
\* faster: both are events, with the same time.
C15_Witness ==
    /\ EventsComputed
    /\ Len(fastest_lap_events) = 2
    /\ fastest_lap_events[1].time = fastest_lap_events[2].time
    /\ fastest_lap_events[1].lap_time > fastest_lap_events[2].lap_time

\* The laps of the sector table completed at or before time t: those with a
\* lap time > 0 and a completion time <= t.
CompletedLaps(t) ==
    {dl \in Drivers \X (1..2) :
        /\ HasSectors(sector_data.driver_sectors, dl[1], dl[2])
        /\ sector_data.driver_sectors[dl[1]][dl[2]].lap_time # NoneNumber
        /\ sector_data.driver_sectors[dl[1]][dl[2]].lap_time > 0
        /\ sector_data.driver_sectors[dl[1]][dl[2]].s3_time # NoneNumber
        /\ sector_data.driver_sectors[dl[1]][dl[2]].s3_time <= t}

\* The index of the last fastest-lap event with time <= t, 0 without one.
LastEventUpTo(t) ==
    SetMax({0} \cup {j \in 1..Len(fastest_lap_events) : fastest_lap_events[j].time <= t})

\* C16: in every frame, of time t, fastest_lap names the last fastest-lap
\* event with time <= t, and its lap time is the least lap time of the laps
\* completed at or before t; it is null when no lap is completed by t.  Over
\* the frames the reported lap time never increases and never returns to null.
C16_FastestLapIsRunningMinimum ==
    \A k \in 1..Len(frames) :
        LET fl == frames[k].fastest_lap
            j  == LastEventUpTo(frames[k].t)
            cl == CompletedLaps(frames[k].t)
        IN  /\ (cl = {}) <=> (j = 0)
            /\ j = 0 => fl.driver = "None" /\ fl.time = NoneNumber /\ fl.lap_num = NoneNumber
            /\ j # 0 =>
                  /\ fl.driver = fastest_lap_events[j].driver
                  /\ fl.lap_num = fastest_lap_events[j].lap_num
                  /\ fl.time = fastest_lap_events[j].lap_time
                  /\ <<fl.driver, fl.lap_num>> \in cl
                  /\ \A dl \in cl :
                        fl.time <= sector_data.driver_sectors[dl[1]][dl[2]].lap_time
            /\ k > 1 /\ frames[k - 1].fastest_lap.time # NoneNumber =>
                  /\ fl.time # NoneNumber
                  /\ fl.time <= frames[k - 1].fastest_lap.time

\* A lap of 90 is the fastest lap of one frame, a lap of 88 completed later is
\* the fastest lap of the next frame, and the frame before both reports none.
C16_Witness ==
    \E k \in 3..Len(frames) :
        /\ frames[k - 2].fastest_lap.time = NoneNumber
        /\ frames[k - 1].fastest_lap.time = 90
        /\ frames[k].fastest_lap.time = 88
        /\ frames[k].fastest_lap.driver # frames[k - 1].fastest_lap.driver

\* C17: in every frame, of time t, fastest_lap.is_new is true exactly when a
\* current fastest-lap event exists and 0 <= t - (time of the event) <= 5 s.
C17_IsNewWithinFiveSeconds ==
    \A k \in 1..Len(frames) :
        LET j == LastEventUpTo(frames[k].t)
        IN  frames[k].fastest_lap.is_new
                <=> /\ j # 0
                    /\ 0 <= frames[k].t - fastest_lap_events[j].time
                    /\ frames[k].t - fastest_lap_events[j].time <= 5 * TicksPerSec

\* The fastest lap set at second 1 is new in the frame of second 6 and not in
\* the frame of second 7.
C17_Witness ==
    \E k \in 2..Len(frames) :
        /\ frames[k].t = 7 * TicksPerSec
        /\ LastEventUpTo(frames[k].t) # 0
        /\ fastest_lap_events[LastEventUpTo(frames[k].t)].time = TicksPerSec
        /\ frames[k - 1].fastest_lap.is_new
        /\ ~frames[k].fastest_lap.is_new

\* -------------------------------------------------- lap length not positive
\* C18: for a lap length <= 0, zero or negative, build_frames builds every
\* frame and ranks the vehicles by descending raw distance, whatever their
\* lap numbers: a vehicle with a greater distance has the smaller rank.
C18_NonPositiveLapLengthRanksByDistance ==
    lap_length <= 0 =>
        /\ pc = "done" => Len(frames) = Len(timeline)
        /\ \A k \in 1..Len(frames) : \A a, b \in FrameDrivers(k) :
              resampled[a].distance[k] > resampled[b].distance[k]
                  => PosIn(k, a) < PosIn(k, b)

\* The same for a lap length of exactly zero.
C18_ZeroLapLengthRanksByDistance ==
    lap_length = 0 =>
        /\ pc = "done" => Len(frames) = Len(timeline)
        /\ \A k \in 1..Len(frames) : \A a, b \in FrameDrivers(k) :
              resampled[a].distance[k] > resampled[b].distance[k]
                  => PosIn(k, a) < PosIn(k, b)

\* ------------------------------------------------------ missing side tables
\* The table (a dict keyed by vehicle, then by lap) has no entry for the lap
\* of vehicle d: the table is empty, or d is not in it, or the lap is not.
NoEntry(table, d, lap) == ~(d \in DOMAIN table /\ lap \in DOMAIN table[d])

\* No stint of vehicle d holds the lap.
NoStint(d, lap) ==
    \/ d \notin DOMAIN pit_data
    \/ \A j \in 1..Len(pit_data[d]) :
          ~(pit_data[d][j].start_lap <= lap /\ lap <= pit_data[d][j].end_lap)

\* C19: every frame holds the state of every vehicle of the resampled input,
\* and build_frames returns one frame per timeline entry.  In the state of a
\* vehicle whose current lap has no entry in the tyre table the compound is
\* null; without an entry in the sector table the sector times and the lap
\* time are null; without a stint that holds the lap the stint is 1, the tyre
\* age 0 and the pit count 0.
C19_MissingMetadataGivesDefaults ==
    /\ pc = "done" => Len(frames) = Len(timeline)
    /\ \A k \in 1..Len(frames) :
          /\ FrameDrivers(k) = DOMAIN resampled
          /\ \A d \in FrameDrivers(k) :
                LET st == frames[k].drivers[d]
                IN  /\ NoEntry(tyre_map, d, st.lap) => st.compound = "None"
                    /\ NoEntry(sector_data.driver_sectors, d, st.lap) =>
                          /\ st.sector_times =
                                [s1 |-> NoneNumber, s2 |-> NoneNumber, s3 |-> NoneNumber]
                          /\ st.lap_time = NoneNumber
                    /\ NoStint(d, st.lap) =>
                          st.stint = 1 /\ st.tyre_life = 0 /\ st.pit_count = 0

\* Vehicle A is on lap 1 in one frame, with a compound and a lap time from
\* the tables, and on lap 2 in the next, a lap that is in no table and falls
\* between two stints: that frame holds A with the default context, next to
\* vehicle B.
C19_Witness ==
    \E k \in 2..Len(frames) :
        /\ FrameDrivers(k) = {"A", "B"}
        /\ frames[k - 1].drivers["A"].compound = "SOFT"
        /\ frames[k - 1].drivers["A"].lap_time = 90
        /\ frames[k].drivers["A"].lap = 2
        /\ frames[k].drivers["A"].compound = "None"
        /\ frames[k].drivers["A"].lap_time = NoneNumber
        /\ frames[k].drivers["A"].stint = 1
        /\ frames[k].drivers["A"].pit_count = 0
        /\ DOMAIN pit_data = {"A"}
        /\ Len(pit_data["A"]) = 2

\* ------------------------------------------------------------ track status
\* C20: with a status log sorted by time, the track_status of the frame of
\* time t is the status of the last log entry with time <= t, and GREEN when
\* the log is empty or all its entries are later than t.
C20_TrackStatusIsLatestEntry ==
    \A k \in 1..Len(frames) :
        LET upTo == {j \in 1..Len(race_control) : race_control[j].time <= frames[k].t}
        IN  frames[k].track_status =
                IF upTo = {} THEN "GREEN" ELSE race_control[SetMax(upTo)].status

\* A log of three entries: the frame of time 0 is before the first one and
\* GREEN; the next frame has two entries behind it, one of them at exactly
\* its time, and reports the status of that one, not of the third entry.
C20_Witness ==
    /\ Len(race_control) = 3
    /\ Len(frames) >= 2
    /\ race_control[1].time > frames[1].t
    /\ race_control[1].status = "YELLOW"
    /\ frames[1].track_status = "GREEN"
    /\ race_control[2].time = frames[2].t
    /\ race_control[2].status = "RED"
    /\ race_control[3].time > frames[2].t
    /\ race_control[3].status = "GREEN"
    /\ frames[2].track_status = "RED"

\* ------------------------------------------------------------ skipped laps
\* The vehicles whose iteration of extract_driver_telemetry has collected the
\* laps: those handled, and the one the function failed on.
CollectedDrivers ==
    {SessionDrivers[k] : k \in 1..(IF pc = "stitch_error" THEN stitch_i + 1 ELSE stitch_i)}

\* C23: after the laps of a vehicle are collected, a lap that was skipped
\* (empty telemetry, or an exception at any point of its extraction) has left
\* no sample in any channel list: every channel of the vehicle concatenates
\* to the same length as its time channel.
C23_SkippedLapLeavesListsAligned ==
    \A d \in CollectedDrivers :
        \A c \in DOMAIN DriverData(session[d]) :
            Len(DriverData(session[d])[c]) = Len(DriverData(session[d]).time)

\* ------------------------------------------------------ discarded vehicles
\* C27: every vehicle of the resampled output and of the frames is one that
\* build_global_timeline accepted as having a usable range (at least two
\* samples, finite first and last timestamps, end > start).
C27_OnlyUsableVehiclesResampled ==
    /\ DOMAIN resampled \subseteq UsableVehicles
    /\ \A k \in 1..Len(frames) : FrameDrivers(k) \subseteq UsableVehicles

\* ------------------------------------------------------------ passed vehicle
\* The vehicle ranked at position p in frame k.
VehicleAt(k, p) == CHOOSE o \in FrameDrivers(k) : PosIn(k, o) = p

\* Vehicles d and e, adjacent in frame k - 1, have swapped ranks in frame k
\* (d gaining) and every other vehicle has kept its rank.
AdjacentSwap(k, d, e) ==
    /\ d # e
    /\ PosIn(k - 1, d) = PosIn(k - 1, e) + 1
    /\ PosIn(k, d) = PosIn(k - 1, e)
    /\ PosIn(k, e) = PosIn(k - 1, d)
    /\ \A o \in FrameDrivers(k) \ {d, e} : PosIn(k, o) = PosIn(k - 1, o)

\* C24: for every recorded position change of vehicle d, passed is the vehicle
\* now ranked at to_pos + 1 when the rank of that vehicle in the previous
\* frame was better (lower) than the previous rank of d, and null otherwise;
\* when exactly two adjacent vehicles swap ranks and all the others keep
\* theirs, exactly one change is recorded and it names the other vehicle.
C24_PassedIsOvertakenNeighbour ==
    \A k \in 2..Len(frames) :
        LET changes == frames[k].position_changes
        IN  /\ \A j \in 1..Len(changes) :
                  LET d == changes[j].driver
                      o == VehicleAt(k, changes[j].to_pos + 1)
                  IN  changes[j].passed =
                          IF PosIn(k - 1, o) < PosIn(k - 1, d) THEN o ELSE "None"
            /\ \A d, e \in FrameDrivers(k) :
                  AdjacentSwap(k, d, e) =>
                      /\ Len(changes) = 1
                      /\ changes[1].driver = d
                      /\ changes[1].passed = e

\* Of three vehicles the second and the third swap ranks while the leader
\* keeps the first rank: one change, naming the vehicle that fell back.
C24_Witness ==
    \E k \in 2..Len(frames) : \E d, e \in FrameDrivers(k) :
        /\ Cardinality(FrameDrivers(k)) = 3
        /\ AdjacentSwap(k, d, e)
        /\ PosIn(k, d) = 2
        /\ Len(frames[k].position_changes) = 1
        /\ frames[k].position_changes[1].passed = e

\* -------------------------------------------------------------- determinism
\* C21: a second run of build_global_timeline, resample_all_drivers and
\* build_frames on the same telemetry and frame rate returns the timeline and
\* the frames of the first run: at every point of the second run the
\* timeline, once built, is the one of the first run and the frames built so
\* far are the first frames of the first run, all of them at the end.
C21_SecondRunRepeatsFirst ==
    first_run # <<>> =>
        /\ pc \in {"resample", "build_frames", "frames", "done"} =>
               timeline = first_run.timeline
        /\ pc \in {"frames", "done"} =>
               /\ Len(frames) <= Len(first_run.frames)
               /\ frames = SubSeq(first_run.frames, 1, Len(frames))
        /\ pc = "done" => frames = first_run.frames
        /\ pc # "error"

\* The second run has returned its frames; the ranks of the last frame of the
\* first run differ from those of its first frame, so a rank map carried over
\* from the first run would show in the first frame of the second.
C21_Witness ==
    /\ first_run # <<>>
    /\ pc = "done"
    /\ Len(frames) >= 2
    /\ \E d \in FrameDrivers(1) : PosIn(1, d) # PosIn(Len(frames), d)

\* ------------------------------------------------------------------- stints
\* C28: for a vehicle whose lap number does not decrease from one frame to
\* the next, the stint index and the pit_count do not decrease either,
\* whatever stint table extract_pit_stops produced.
C28_StintNeverDecreases ==
    \A k \in 2..Len(frames) : \A d \in FrameDrivers(k) :
        frames[k - 1].drivers[d].lap <= frames[k].drivers[d].lap =>
            /\ frames[k - 1].drivers[d].stint <= frames[k].drivers[d].stint
            /\ frames[k - 1].drivers[d].pit_count <= frames[k].drivers[d].pit_count

\* ---------------------------------------------------------- resample_driver
\* C25: for the same vehicle series, timeline and t0, every channel that
\* resample_driver returns equals the channel of the same name returned by
\* resample_all_drivers (continuous channels clamped at the boundaries of the
\* coverage and never NaN, gear, drs and lap stepped).
C25_ResampleDriverAgrees ==
    \A d \in DOMAIN resampled_one : \A c \in DOMAIN resampled_one[d] :
        resampled_one[d][c] = InScale(c, resampled[d][c])

\* ------------------------------------------------------------ replay cache
\* What load_replay_cache would return for key k now.
LoadOf(k) == LoadResult(files, k.year, k.round, k.session, k.fps)

\* C22: load_replay_cache returns None for every key as long as nothing is
\* saved; a save under key k makes k load the saved meta, timeline and
\* frames, unchanged, and leaves what every other key loads as it was; a load
\* changes what no key loads and returns exactly that.  Hence a load returns
\* the most recent save under its key, None when there was none.
C22_LoadReturnsLatestSave ==
    /\ \A k \in CacheKeys : LoadOf(k) = NoCache
    /\ [][\A k \in CacheKeys :
            /\ (cache_call'.op = "save" /\ cache_call'.key = k) =>
                   LoadOf(k)' = cache_call'.payload
            /\ ~(cache_call'.op = "save" /\ cache_call'.key = k) =>
                   LoadOf(k)' = LoadOf(k)
            /\ (cache_call'.op = "load" /\ cache_call'.key = k) =>
                   loaded' = LoadOf(k)]_vars

\* A load has returned the replay saved under its key while another key, one
\* whose session code itself contains "_fps2", holds a different replay.
C22_Witness ==
    /\ cache_call.op = "load"
    /\ loaded # NoCache
    /\ \E j \in CacheKeys \ {cache_call.key} :
          /\ LoadOf(j) # NoCache
          /\ LoadOf(j) # loaded
          /\ j.session = <<"Q", "_", "f", "p", "s", "2">>

\* --------------------------------------------------------------- web export
\* The chunks written so far hold, in order and once each, the compact forms
\* of the first frames of the export, at most CHUNK_SIZE to a chunk; all frames
\* once the export is done.
ChunksCoverFrames ==
    /\ \A c \in 1..Len(web.chunks) :
          /\ Len(web.chunks[c]) \in 1..CHUNK_SIZE
          /\ c < Len(web.chunks) => Len(web.chunks[c]) = CHUNK_SIZE
          /\ \A j \in 1..Len(web.chunks[c]) :
                web.chunks[c][j].t = ((c - 1) * CHUNK_SIZE + j - 1) * FrameMillis
    /\ web.pc = "done" =>
          /\ Len(web.chunks) >= 1
          /\ (Len(web.chunks) - 1) * CHUNK_SIZE + Len(web.chunks[Len(web.chunks)])
                = web.n_frames

\* The first compact frame of every chunk carries the four delta fields.
FirstFramesFull ==
    \A c \in 1..Len(web.chunks) :
        {"w", "ts", "fl", "ob"} \subseteq DOMAIN web.chunks[c][1]

\* C26: export_for_web splits the frames into consecutive chunks of at most
\* 1000 frames that cover every frame exactly once and in order, and the
\* first compact frame of each chunk includes the four delta-encoded fields
\* w, ts, fl and ob, whatever the frames hold.
C26_ChunksCoverAndStartFull ==
    web.pc # "idle" => (ChunksCoverFrames /\ FirstFramesFull)

\* The chunking part of C26 alone.
C26_ChunksCover ==
    web.pc # "idle" => ChunksCoverFrames

\* ------------------------------------------------------------ replay window
\* frame_idx is within [0, n_frames - 1] and speed_i indexes speed_choices.
CursorInRange ==
    win.pc = "open" =>
        /\ 0 <= win.frame_idx /\ win.frame_idx <= LastFrame
        /\ win.speed_i \in 0..(Len(speed_choices) - 1)

\* C29: on a window with at least one frame, after any sequence of update
\* ticks, key presses and clicks on the progress bar, frame_idx is within
\* [0, n_frames - 1] and speed_i is a valid index of speed_choices; an update
\* tick of a running playback that reaches or passes the last frame leaves
\* frame_idx at n_frames - 1 and the playback paused.
C29_CursorStaysInRange ==
    /\ []CursorInRange
    /\ [][(/\ win.pc = "open"
           /\ win'.event = "update"
           /\ ~win.paused
           /\ win.frame_idx + speed_choices[win.speed_i + 1] >= LastFrame)
          => (win'.frame_idx = LastFrame /\ win'.paused)]_vars

\* At the highest speed an update tick has run into the end of the longest
\* replay and paused it.
C29_Witness ==
    /\ win.pc = "open"
    /\ win.n_frames = MaxWinFrames
    /\ win.event = "update"
    /\ win.speed_i = Len(speed_choices) - 1
    /\ win.paused
    /\ win.frame_idx = LastFrame

\* --------------------------------------------------------------------- main
\* C30: on every path of main the AI-racer step reads timeline and frames
\* only after they were produced, by the cache load or by
\* build_global_timeline and build_frames.
C30_AiReadsProducedReplay ==
    run.pc # "idle" =>
        /\ run.ai_read # <<>> =>
               /\ run.ai_read.timeline \in {"cached", "built"}
               /\ run.ai_read.frames \in {"cached", "built"}
        /\ run.pc # "crash"

\* The cache-hit path alone: there the AI step reads the cached replay.
C30_AiReadsCachedReplayOnHit ==
    (run.pc # "idle" /\ run.cached # NoCache /\ run.ai_read # <<>>) =>
        (run.ai_read.timeline = "cached" /\ run.ai_read.frames = "cached")
====
